---- MODULE Spec2Model ----
(***************************************************************************)
(* A model of KiteTickerWrapper (src/kite_websocket.py): the subscription  *)
(* and session tracker that sits on top of the vendor streaming client     *)
(* (self.kws).  The vendor client is opaque: each of its calls either      *)
(* returns or raises, and once it has been started it may deliver any      *)
(* event at any time.                                                      *)
(*                                                                         *)
(* Timestamps (datetime.now()) are wall-clock readings no property reads;  *)
(* they are modelled by the single abstract reading Now.                   *)
(***************************************************************************)
EXTENDS Integers, Sequences, FiniteSets, TLC

(***************************************************************************)
(* Bounds of the model.                                                    *)
(***************************************************************************)
\* longest tick batch delivered in one on_ticks event
MaxBatch == 2
\* ticks kept per instrument in the general specification
MaxTicks == 2
\* connect events delivered
MaxConnects == 2
\* observers registered per category
MaxCallbacks == 1
\* order updates delivered
MaxOrders == 1
\* ticks delivered to the hot instrument beyond HISTORY_CAP (SpecCap)
MaxOver == 2
\* ticks delivered to the other instruments (SpecCap)
MaxOther == 2
\* observers registered in all, over the five categories (SpecFanout)
MaxObservers == 3
\* tick batches, order updates and connect events delivered (SpecFanout)
MaxEvents == 1
\* rows saved to the credentials table
MaxRows == 2
\* access tokens issued per API key
MaxLogins == 2
\* order updates delivered between two clear_data calls (SpecOrders)
MaxLog == 3
\* the largest count passed to get_tick_history and get_order_updates
MaxLimit == 3

(***************************************************************************)
(* Program constants.                                                      *)
(***************************************************************************)
\* _on_ticks keeps the last 1000 ticks of each instrument
HISTORY_CAP == 1000

MODE_LTP == "ltp"
MODE_QUOTE == "quote"
MODE_FULL == "full"
\* a string that is not a streaming mode
MODE_BOGUS == "bogus"
\* no mode argument: None, the default of subscribe
NoMode == ""
\* the empty string passed as the mode: a value that is falsy but is not None
MODE_EMPTY == "empty"

ValidModes == {MODE_LTP, MODE_QUOTE, MODE_FULL}
AnyModes == ValidModes \cup {MODE_BOGUS, NoMode}
\* the mode arguments of subscribe
SubscribeModes == AnyModes \cup {MODE_EMPTY}
\* the order in which the model walks mode groups
ModeOrder == <<MODE_LTP, MODE_QUOTE, MODE_FULL, MODE_BOGUS, NoMode, MODE_EMPTY>>

\* two instruments, as in the usage example (instruments = [738561, 5633])
Tokens == {1, 2}
\* two payloads per instrument, enough to tell a newer tick from an older one
Prices == {1, 2}
Now == "now"

\* observers: one that returns, one that raises
Observers == {"ok", "raises"}
Categories == {"tick", "connect", "disconnect", "error", "order"}

VARIABLES
    subscribed_instruments,   \* dict token -> mode
    tick_data,                \* defaultdict token -> list of {timestamp, data}
    latest_ticks,             \* dict token -> tick
    order_updates,            \* list of {timestamp, data}
    connection_status,        \* "DISCONNECTED" | "CONNECTED" | "FAILED"
    connection_count,
    is_running,
    connection_thread,        \* "None" | "alive" | "finished"
    custom_tick_callbacks,
    custom_connect_callbacks,
    custom_disconnect_callbacks,
    custom_error_callbacks,
    custom_order_callbacks,
    kws_live,                 \* the vendor client has been started
    calls,                    \* vendor calls made by the last operation
    invoked,                  \* observers invoked by the last operation
    handed,                   \* what each tick observer was called with, and the
                              \* stores as they were when it was called
    returned,                 \* what the last call returned to the consumer
    last,                     \* the last operation and how it ended
    lastReq,                  \* per token, the consumer's last request
    delivered,                \* per token, ticks delivered since clear_data
    sinceFailed,              \* connect() was called since the status became FAILED
    kws_subscribed,           \* dict token -> mode the vendor client was asked to stream
    kws_followed,             \* the vendor client's subscriptions are followed
    caller,                   \* the consumer's thread: where it is in its call
    worker,                   \* the vendor's event thread: where it is in its handler
    app,                      \* the last operation of the web application (a Kite_Api
                              \* method, a store function or a web request): its
                              \* arguments, its broker calls and what came back
    database,                 \* the module behind the credentials store
    credentials,              \* the rows of table api_credentials, by id
    session                   \* the browser session (Flask session)

trackerVars == <<subscribed_instruments, tick_data, latest_ticks, order_updates,
                 connection_status, connection_count, is_running,
                 connection_thread>>
callbackVars == <<custom_tick_callbacks, custom_connect_callbacks,
                  custom_disconnect_callbacks, custom_error_callbacks,
                  custom_order_callbacks>>
ghostVars == <<kws_live, calls, invoked, handed, returned, last, lastReq, delivered,
               sinceFailed>>
kwsVars == <<kws_subscribed, kws_followed>>
threadVars == <<caller, worker>>
\* the web application around the tracker: the broker API wrapper, the
\* credentials database and the browser session
appVars == <<app, database, credentials, session>>
kiteTickerVars == <<trackerVars, callbackVars, ghostVars, kwsVars, threadVars>>
vars == <<trackerVars, callbackVars, ghostVars, kwsVars, appVars, threadVars>>

(***************************************************************************)
(* Python dicts as functions on a finite key set.                          *)
(***************************************************************************)
EmptyDict == [k \in {} |-> 0]
Keys(d) == DOMAIN d
Values(d) == {d[k] : k \in DOMAIN d}
\* d[k] = v for every k in ks
PutAll(d, ks, v) == [k \in DOMAIN d \cup ks |-> IF k \in ks THEN v ELSE d[k]]
\* d.pop(k, None) for every k in ks
PopAll(d, ks) == [k \in DOMAIN d \ ks |-> d[k]]
\* d.get(k): the value, or None
Get(d, k) == IF k \in DOMAIN d THEN d[k] ELSE "None"
\* a mode argument is truthy unless it is None or ""
Truthy(m) == m \notin {NoMode, MODE_EMPTY}

Op(name, tokens, mode, exc) == [op |-> name, tokens |-> tokens, mode |-> mode, exc |-> exc]
VendorCall(name, tokens, mode) == [call |-> name, tokens |-> tokens, mode |-> mode]


(***************************************************************************)
(* subscribe(instruments, mode, resubscribe): the result of one call on    *)
(* the map subs, when the vendor call named by fail raises ("none": no     *)
(* vendor call raises).  Returns the map, the vendor calls made, and the   *)
(* exception that leaves the call.                                         *)
(***************************************************************************)
EffectiveMode(mode) == IF Truthy(mode) THEN mode ELSE MODE_QUOTE

\* a variant that records the default mode whatever mode was asked for
TrackSubscribed_DefaultMode(subs, instruments, mode) == PutAll(subs, instruments, MODE_QUOTE)

TrackSubscribed(subs, instruments, mode) == PutAll(subs, instruments, mode)

\* a variant that records the tokens before the vendor's set_mode is called
SubscribeCall_TracksBeforeSetMode(subs, instruments, mode, fail) ==
    LET eff == EffectiveMode(mode)
        sub == VendorCall("subscribe", instruments, NoMode)
        setm == VendorCall("set_mode", instruments, eff)
    IN  IF eff \notin ValidModes
        THEN [subs |-> subs, calls |-> <<>>, exc |-> "ValueError", accepted |-> {},
              asked |-> MODE_QUOTE]
        ELSE IF fail = "subscribe"
        THEN [subs |-> subs, calls |-> <<sub>>, exc |-> "VendorError", accepted |-> {},
              asked |-> MODE_QUOTE]
        ELSE [subs |-> TrackSubscribed(subs, instruments, eff),
              calls |-> IF eff # MODE_QUOTE THEN <<sub, setm>> ELSE <<sub>>,
              exc |-> IF eff # MODE_QUOTE /\ fail = "set_mode" THEN "VendorError" ELSE "none",
              accepted |-> instruments,
              asked |-> IF fail = "set_mode" THEN MODE_QUOTE ELSE eff]

SubscribeCall(subs, instruments, mode, fail) ==
    LET eff == EffectiveMode(mode)
        sub == VendorCall("subscribe", instruments, NoMode)
        setm == VendorCall("set_mode", instruments, eff)
    IN  IF eff \notin ValidModes
        THEN [subs |-> subs, calls |-> <<>>, exc |-> "ValueError", accepted |-> {},
              asked |-> MODE_QUOTE]
        ELSE IF fail = "subscribe"
        THEN [subs |-> subs, calls |-> <<sub>>, exc |-> "VendorError", accepted |-> {},
              asked |-> MODE_QUOTE]
        ELSE IF eff # MODE_QUOTE /\ fail = "set_mode"
        THEN [subs |-> subs, calls |-> <<sub, setm>>, exc |-> "VendorError",
              accepted |-> instruments, asked |-> MODE_QUOTE]
        ELSE [subs |-> TrackSubscribed(subs, instruments, eff),
              calls |-> IF eff # MODE_QUOTE THEN <<sub, setm>> ELSE <<sub>>,
              exc |-> "none", accepted |-> instruments, asked |-> eff]

Failures == {"none", "subscribe", "set_mode"}

(***************************************************************************)
(* _resubscribe_all: group the map by mode, one subscribe per group, each  *)
(* in its own try/except.  fails maps each mode to the vendor call that    *)
(* raises while that group is resubscribed.  Returns the map, the vendor   *)
(* calls made, the tokens the vendor subscribe accepted, each with the     *)
(* mode the vendor was asked to stream for it (the default mode when no    *)
(* set_mode was accepted for it), the tokens of the groups whose vendor    *)
(* call raised, and whether an exception was caught.                       *)
(***************************************************************************)
TokensOf(subs, mode) == {t \in Keys(subs) : subs[t] = mode}

ModeGroups(subs) == SelectSeq(ModeOrder, LAMBDA m : m \in Values(subs))

NothingResubscribed(subs) ==
    [subs |-> subs, calls |-> <<>>, accepted |-> EmptyDict, raised |-> {},
     caught |-> FALSE]

RECURSIVE ResubscribeGroups(_, _, _, _, _)
ResubscribeGroups(subs, groups, tokensOf, fails, done) ==
    IF groups = <<>>
    THEN [done EXCEPT !.subs = subs]
    ELSE LET mode == Head(groups)
             r == SubscribeCall(subs, tokensOf[mode], mode, fails[mode])
         IN  ResubscribeGroups(r.subs, Tail(groups), tokensOf, fails,
                 [subs |-> r.subs,
                  calls |-> done.calls \o r.calls,
                  accepted |-> PutAll(done.accepted, r.accepted, r.asked),
                  raised |-> done.raised \cup
                             (IF r.exc = "VendorError" THEN tokensOf[mode] ELSE {}),
                  caught |-> done.caught \/ r.exc # "none"])

ResubscribeAll(subs, fails) ==
    IF Keys(subs) = {}
    THEN NothingResubscribed(subs)
    ELSE LET mode_groups == [m \in Values(subs) |-> TokensOf(subs, m)]
         IN  ResubscribeGroups(subs, ModeGroups(subs), mode_groups, fails,
                               NothingResubscribed(subs))

(***************************************************************************)
(* Observer fan-out: every observer of the list is called in order, each   *)
(* inside its own try/except.                                              *)
(***************************************************************************)
\* a variant that leaves the loop at the first observer that raises
Dispatch_StopsAtFirstRaise(category, callbacks) ==
    LET raising == {i \in 1..Len(callbacks) : callbacks[i] = "raises"}
        n == IF raising = {} THEN Len(callbacks)
             ELSE CHOOSE i \in raising : \A j \in raising : i <= j
    IN  [i \in 1..n |-> <<category, callbacks[i]>>]

\* a variant that calls an observer once however often it was added
RECURSIVE Deduplicated(_)
Deduplicated(callbacks) ==
    IF callbacks = <<>> THEN <<>>
    ELSE LET n == Len(callbacks)
             front == Deduplicated(SubSeq(callbacks, 1, n - 1))
         IN  IF \E i \in 1..(n - 1) : callbacks[i] = callbacks[n]
             THEN front ELSE Append(front, callbacks[n])

Dispatch_OncePerObserver(category, callbacks) ==
    [i \in 1..Len(Deduplicated(callbacks)) |-> <<category, Deduplicated(callbacks)[i]>>]

Dispatch(category, callbacks) ==
    [i \in 1..Len(callbacks) |-> <<category, callbacks[i]>>]

(***************************************************************************)
(* _on_ticks: per tick, append to the history, trim, set the latest tick.  *)
(***************************************************************************)
Entry(payload) == [timestamp |-> Now, data |-> payload]

\* a variant that keeps the oldest entries instead of the newest
TrimHistory_KeepsOldest(h) ==
    IF Len(h) > HISTORY_CAP THEN SubSeq(h, 1, HISTORY_CAP) ELSE h

TrimHistory(h) ==
    IF Len(h) > HISTORY_CAP THEN SubSeq(h, Len(h) - HISTORY_CAP + 1, Len(h)) ELSE h

AppendTick(td, tick) ==
    LET tok == tick.instrument_token
        old == IF tok \in DOMAIN td THEN td[tok] ELSE <<>>
    IN  [k \in DOMAIN td \cup {tok} |->
            IF k = tok THEN TrimHistory(Append(old, Entry(tick))) ELSE td[k]]

SetLatest(lt, tick) == PutAll(lt, {tick.instrument_token}, tick)

RECURSIVE StoreTicks(_, _, _)
StoreTicks(td, lt, ticks) ==
    IF ticks = <<>>
    THEN [tick_data |-> td, latest_ticks |-> lt]
    ELSE StoreTicks(AppendTick(td, Head(ticks)), SetLatest(lt, Head(ticks)), Tail(ticks))

\* a variant that calls the tick observers before the batch is stored
HandTicks_BeforeStoring(callbacks, ticks, before, after) ==
    [i \in 1..Len(callbacks) |->
        [observer |-> callbacks[i], ticks |-> ticks,
         tick_data |-> before.tick_data, latest_ticks |-> before.latest_ticks]]

\* the calls of the tick observers: one call per observer, with the whole batch,
\* made after the loop that stores the batch
HandTicks(callbacks, ticks, before, after) ==
    [i \in 1..Len(callbacks) |->
        [observer |-> callbacks[i], ticks |-> ticks,
         tick_data |-> after.tick_data, latest_ticks |-> after.latest_ticks]]

RECURSIVE CountFor(_, _)
CountFor(ticks, tok) ==
    IF ticks = <<>> THEN 0
    ELSE (IF Head(ticks).instrument_token = tok THEN 1 ELSE 0) + CountFor(Tail(ticks), tok)

(***************************************************************************)
(* Query operations.                                                       *)
(***************************************************************************)
get_latest_tick(tok) == Get(latest_ticks, tok)

HasLatestTick(tok) == tok \in DOMAIN latest_ticks

get_tick_history(tok) == IF tok \in DOMAIN tick_data THEN tick_data[tok] ELSE <<>>


\* a thread that is in no call: its locals are cleared
CallerIdle == [pc |-> "idle", op |-> "none", tokens |-> {}, mode |-> NoMode, todo |-> {}]
WorkerIdle == [pc |-> "idle", size |-> 0, seen |-> {}, groups |-> EmptyDict,
               pending |-> <<>>, tokens |-> {}, mode |-> NoMode, todo |-> {},
               exc |-> "none", batch |-> <<>>]

\* the count argument of get_tick_history and get_order_updates: None, or an
\* integer n
NoCount == {}
Count(n) == {n}
CountValue(count) == CHOOSE n \in count : TRUE
\* `if count:` : the argument is neither None nor 0
CountGiven(count) == count # NoCount /\ count # Count(0)

\* what a call handed back to the consumer: the value, the token and count it
\* was asked with, and what the value shares with the tracker's own objects
\* ("list": it is the tracker's own list object for the token; "entries": a
\* new list that holds the tracker's own entry objects; "nothing")
Value(value, shares, token, count) ==
    [value |-> value, shares |-> shares, token |-> token, count |-> count]
NoValue == Value(<<>>, "nothing", 0, NoCount)

\* None, for a key, a secret or a token
None == "None"
\* an access token: the API key it was issued for and a serial number
Token(key, serial) == [key |-> key, serial |-> serial]
NoToken == Token(None, 0)
EmptySession == [api_key |-> None, api_secret |-> None, access_token |-> NoToken]
\* an operation of the application, as seen by its caller: the broker calls
\* it made, what it returned, and whether an exception left it
Call(op, args, brokerCalls, result, raised) ==
    [op |-> op, args |-> args, calls |-> brokerCalls, result |-> result,
     raised |-> raised]
NoCall == Call("none", <<>>, <<>>, "none", FALSE)

(***************************************************************************)
(* The state after __init__.  The vendor client has not been asked to      *)
(* stream anything.  Its subscriptions are followed in the specifications  *)
(* that start from InitFollowed.                                           *)
(***************************************************************************)
Constructed ==
    /\ subscribed_instruments = EmptyDict
    /\ tick_data = EmptyDict
    /\ latest_ticks = EmptyDict
    /\ order_updates = <<>>
    /\ connection_status = "DISCONNECTED"
    /\ connection_count = 0
    /\ is_running = FALSE
    /\ connection_thread = "None"
    /\ custom_tick_callbacks = <<>>
    /\ custom_connect_callbacks = <<>>
    /\ custom_disconnect_callbacks = <<>>
    /\ custom_error_callbacks = <<>>
    /\ custom_order_callbacks = <<>>
    /\ kws_live = FALSE
    /\ calls = <<>>
    /\ invoked = <<>>
    /\ handed = <<>>
    /\ returned = NoValue
    /\ last = Op("init", {}, NoMode, "none")
    /\ lastReq = [t \in Tokens |-> "never"]
    /\ delivered = [t \in Tokens |-> 0]
    /\ sinceFailed = FALSE
    /\ caller = CallerIdle
    /\ worker = WorkerIdle
    /\ kws_subscribed = EmptyDict

\* no Kite_Api operation and no web request yet, an empty credentials table
\* (init_db) and an empty browser session
AppStarted ==
    /\ app = NoCall
    /\ credentials = <<>>
    /\ session = EmptySession

Init ==
    /\ Constructed
    /\ kws_followed = FALSE
    /\ AppStarted
    /\ database = "auth_db"

InitFollowed ==
    /\ Constructed
    /\ kws_followed = TRUE
    /\ AppStarted
    /\ database = "auth_db"

\* the store is src/database/auth_db.py or src/database/dummy.py
Databases == {"auth_db", "dummy"}

InitStore ==
    /\ Constructed
    /\ kws_followed = FALSE
    /\ AppStarted
    /\ database \in Databases

\* what a consumer asks for with subscribe(tokens, mode): QUOTE when no mode is passed
RequestedMode(mode) == IF mode = NoMode THEN MODE_QUOTE ELSE mode

Recorded(op, vendorCalls, observers, handovers) ==
    /\ last' = op
    /\ calls' = vendorCalls
    /\ invoked' = observers
    /\ handed' = handovers
    /\ returned' = NoValue

Record(op, vendorCalls, observers) == Recorded(op, vendorCalls, observers, <<>>)

\* a call or handler that runs to its end in one step: no thread is left inside it
Log(op, vendorCalls, observers) ==
    /\ Record(op, vendorCalls, observers)
    /\ UNCHANGED threadVars

\* sinceFailed is kept only while the status is FAILED
StatusBecomes(status) ==
    /\ connection_status' = status
    /\ sinceFailed' = FALSE

StatusStays ==
    UNCHANGED <<connection_status, sinceFailed>>

(***************************************************************************)
(* The vendor client's subscriptions: the tokens it was asked to stream    *)
(* and not since asked to stop, on the current connection, each with the   *)
(* mode it was asked to stream.  A connect event after the first opens a   *)
(* new connection, on which nothing has been asked yet.                    *)
(*                                                                         *)
(* The vendor's subscribe names no mode: a token that was not subscribed   *)
(* starts in the default mode; for a token that is subscribed already the  *)
(* vendor either keeps the mode it was last asked for or falls back to the *)
(* default.  The vendor's set_mode changes the mode of the tokens it holds.*)
(***************************************************************************)
KwsSubscribed(kws, tokens) ==
    {[t \in Keys(kws) \cup tokens |-> IF t \in Keys(kws) THEN kws[t] ELSE MODE_QUOTE],
     PutAll(kws, tokens, MODE_QUOTE)}

KwsModeSet(kws, tokens, mode) ==
    [t \in Keys(kws) |-> IF t \in tokens THEN mode ELSE kws[t]]

KwsUnsubscribed(kws, tokens) == PopAll(kws, tokens)

KwsConnected(kws, count) == IF count > 1 THEN EmptyDict ELSE kws

\* the outcomes of the vendor calls of subscribe(tokens, mode), where fail names
\* the vendor call that raises
KwsAfterSubscribe(kws, tokens, mode, fail) ==
    LET eff == EffectiveMode(mode)
    IN  IF eff \notin ValidModes \/ fail = "subscribe" THEN {kws}
        ELSE IF eff = MODE_QUOTE \/ fail = "set_mode" THEN KwsSubscribed(kws, tokens)
        ELSE {KwsModeSet(k, tokens, eff) : k \in KwsSubscribed(kws, tokens)}

\* the same when all that is known is whether one of the vendor calls raised
KwsAfterVendorCalls(kws, tokens, mode, raises) ==
    IF raises
    THEN KwsAfterSubscribe(kws, tokens, mode, "subscribe")
             \cup KwsAfterSubscribe(kws, tokens, mode, "set_mode")
    ELSE KwsAfterSubscribe(kws, tokens, mode, "none")

\* the tokens of dict e with their modes, on top of dict d
Merge(d, e) ==
    [k \in Keys(d) \cup Keys(e) |-> IF k \in Keys(e) THEN e[k] ELSE d[k]]

KwsBecomes(outcomes) ==
    /\ kws_subscribed' \in (IF kws_followed THEN outcomes ELSE {kws_subscribed})
    /\ UNCHANGED <<kws_followed, appVars>>

(***************************************************************************)
(* Operations called by the consumer.                                      *)
(***************************************************************************)
Subscribe(instruments, mode, fail) ==
    LET r == SubscribeCall(subscribed_instruments, instruments, mode, fail)
    IN  /\ subscribed_instruments' = r.subs
        /\ lastReq' = IF r.exc = "none"
                      THEN [t \in Tokens |-> IF t \in instruments
                                             THEN RequestedMode(mode) ELSE lastReq[t]]
                      ELSE lastReq
        /\ Log(Op("subscribe", instruments, mode, r.exc), r.calls, <<>>)
        /\ KwsBecomes(KwsAfterSubscribe(kws_subscribed, instruments, mode, fail))
        /\ StatusStays
        /\ UNCHANGED <<tick_data, latest_ticks, order_updates, connection_count,
                       is_running, connection_thread, callbackVars, kws_live, delivered>>

\* a variant that keeps the latest ticks of the unsubscribed tokens
ForgetLatest_KeepsAll(lt, instruments) == lt

ForgetLatest(lt, instruments) == PopAll(lt, instruments)

Unsubscribe(instruments, fail) ==
    LET raised == fail = "unsubscribe"
    IN  /\ subscribed_instruments' =
               IF raised THEN subscribed_instruments
               ELSE PopAll(subscribed_instruments, instruments)
        /\ latest_ticks' = IF raised THEN latest_ticks ELSE ForgetLatest(latest_ticks, instruments)
        /\ lastReq' = IF raised THEN lastReq
                      ELSE [t \in Tokens |-> IF t \in instruments
                                             THEN "unsubscribed" ELSE lastReq[t]]
        /\ Log(Op("unsubscribe", instruments, NoMode, IF raised THEN "VendorError" ELSE "none"),
               <<VendorCall("unsubscribe", instruments, NoMode)>>, <<>>)
        /\ KwsBecomes({IF raised THEN kws_subscribed
                       ELSE KwsUnsubscribed(kws_subscribed, instruments)})
        /\ StatusStays
        /\ UNCHANGED <<tick_data, order_updates, connection_count, is_running,
                       connection_thread, callbackVars, kws_live, delivered>>

\* a variant that records the mode of every token passed, subscribed or not
SetModeTracked_AddsKeys(subs, instruments, mode) == PutAll(subs, instruments, mode)

SetModeTracked(subs, instruments, mode) ==
    [t \in Keys(subs) |-> IF t \in instruments THEN mode ELSE subs[t]]

SetMode(mode, instruments, fail) ==
    LET raised == fail = "set_mode"
    IN  /\ subscribed_instruments' =
               IF raised THEN subscribed_instruments
               ELSE SetModeTracked(subscribed_instruments, instruments, mode)
        /\ lastReq' = IF raised THEN lastReq
                      ELSE [t \in Tokens |->
                               IF t \in instruments /\ lastReq[t] \in ValidModes
                               THEN "set_mode" ELSE lastReq[t]]
        /\ Log(Op("set_mode", instruments, mode, IF raised THEN "VendorError" ELSE "none"),
               <<VendorCall("set_mode", instruments, mode)>>, <<>>)
        /\ KwsBecomes({IF raised THEN kws_subscribed
                       ELSE KwsModeSet(kws_subscribed, instruments, mode)})
        /\ StatusStays
        /\ UNCHANGED <<tick_data, latest_ticks, order_updates, connection_count,
                       is_running, connection_thread, callbackVars, kws_live, delivered>>

\* _connect_worker: the vendor connect returns or raises
ConnectWorkerEffect(raises) ==
    /\ IF raises THEN StatusBecomes("FAILED") ELSE StatusStays
    /\ kws_live' = (kws_live \/ ~raises)

\* connect(threaded=True): the worker thread is started and runs later
ConnectThreaded ==
    /\ connection_thread # "alive"
    /\ is_running' = TRUE
    /\ connection_thread' = "alive"
    /\ sinceFailed' = (connection_status = "FAILED")
    /\ Log(Op("connect", {}, NoMode, "none"), <<>>, <<>>)
    /\ UNCHANGED <<subscribed_instruments, tick_data, latest_ticks, order_updates,
                   connection_status, connection_count, callbackVars, kws_live, kwsVars, appVars,
                   lastReq, delivered>>

ConnectWorker(raises) ==
    /\ connection_thread = "alive"
    /\ connection_thread' = "finished"
    /\ ConnectWorkerEffect(raises)
    /\ Log(Op("connect_worker", {}, NoMode, IF raises THEN "caught" ELSE "none"),
           <<VendorCall("connect", {}, NoMode)>>, <<>>)
    /\ UNCHANGED <<subscribed_instruments, tick_data, latest_ticks, order_updates,
                   connection_count, is_running, callbackVars, kwsVars, appVars, lastReq,
                   delivered>>

\* connect(threaded=False): the worker runs inside the call
ConnectInline(raises) ==
    /\ is_running' = TRUE
    /\ IF raises THEN StatusBecomes("FAILED")
       ELSE /\ connection_status' = connection_status
            /\ sinceFailed' = (connection_status = "FAILED")
    /\ kws_live' = (kws_live \/ ~raises)
    /\ Log(Op("connect", {}, NoMode, IF raises THEN "caught" ELSE "none"),
           <<VendorCall("connect", {}, NoMode)>>, <<>>)
    /\ UNCHANGED <<subscribed_instruments, tick_data, latest_ticks, order_updates,
                   connection_count, connection_thread, callbackVars, kwsVars, appVars, lastReq,
                   delivered>>

\* a variant in which disconnect() itself marks the tracker disconnected
Disconnect_MarksDisconnected(raises) ==
    /\ is_running' = FALSE
    /\ Log(Op("disconnect", {}, NoMode, IF raises THEN "caught" ELSE "none"),
           <<VendorCall("close", {}, NoMode)>>, <<>>)
    /\ StatusBecomes("DISCONNECTED")
    /\ UNCHANGED <<subscribed_instruments, tick_data, latest_ticks, order_updates,
                   connection_count, connection_thread, callbackVars, kws_live, kwsVars, appVars,
                   lastReq, delivered>>

Disconnect(raises) ==
    /\ is_running' = FALSE
    /\ Log(Op("disconnect", {}, NoMode, IF raises THEN "caught" ELSE "none"),
           <<VendorCall("close", {}, NoMode)>>, <<>>)
    /\ StatusStays
    /\ UNCHANGED <<subscribed_instruments, tick_data, latest_ticks, order_updates,
                   connection_count, connection_thread, callbackVars, kws_live, kwsVars, appVars,
                   lastReq, delivered>>

\* a variant of clear_data that forgets the subscriptions as well
ClearData_ForgetsSubscriptions ==
    /\ tick_data' = EmptyDict
    /\ latest_ticks' = EmptyDict
    /\ order_updates' = <<>>
    /\ subscribed_instruments' = EmptyDict
    /\ delivered' = [t \in Tokens |-> 0]
    /\ Log(Op("clear_data", {}, NoMode, "none"), <<>>, <<>>)
    /\ StatusStays
    /\ UNCHANGED <<connection_count, is_running,
                   connection_thread, callbackVars, kws_live, kwsVars, appVars, lastReq>>

ClearData ==
    /\ tick_data' = EmptyDict
    /\ latest_ticks' = EmptyDict
    /\ order_updates' = <<>>
    /\ delivered' = [t \in Tokens |-> 0]
    /\ Log(Op("clear_data", {}, NoMode, "none"), <<>>, <<>>)
    /\ StatusStays
    /\ UNCHANGED <<subscribed_instruments, connection_count, is_running,
                   connection_thread, callbackVars, kws_live, kwsVars, appVars, lastReq>>

(***************************************************************************)
(* The credentials store: table api_credentials of src/database/auth_db.py *)
(* and of src/database/dummy.py.  Ids are autoincremented and no row is    *)
(* deleted, so a row's id is its index.  The table of auth_db.py has no    *)
(* is_active column: its rows carry TRUE, which auth_db never reads.       *)
(***************************************************************************)
Row(key, secret, token, active) ==
    [api_key |-> key, api_secret |-> secret, access_token |-> token,
     is_active |-> active]

\* fetchone() of an empty result
NoRow == <<>>

IdsOf(rows, db) ==
    IF db = "dummy" THEN {i \in 1..Len(rows) : rows[i].is_active} ELSE 1..Len(rows)

MaxOf(ids) == CHOOSE i \in ids : \A j \in ids : j <= i

\* SELECT api_key, api_secret, access_token ... ORDER BY id DESC LIMIT 1
get_credentials(rows, db) ==
    IF IdsOf(rows, db) = {} THEN NoRow
    ELSE LET row == rows[MaxOf(IdsOf(rows, db))]
         IN  <<row.api_key, row.api_secret, row.access_token>>

\* a variant that inserts the new row with the token of the latest row
save_credentials_KeepsToken(rows, db, key, secret) ==
    Append(rows, Row(key, secret,
                     IF rows = <<>> THEN NoToken ELSE rows[Len(rows)].access_token,
                     TRUE))

\* INSERT INTO api_credentials (api_key, api_secret): the token is NULL;
\* dummy.py first deactivates every row
save_credentials(rows, db, key, secret) ==
    LET old == IF db = "dummy"
               THEN [i \in 1..Len(rows) |-> [rows[i] EXCEPT !.is_active = FALSE]]
               ELSE rows
    IN  Append(old, Row(key, secret, NoToken, TRUE))

\* UPDATE api_credentials SET access_token = ? WHERE id = (SELECT MAX(id) ...),
\* in dummy.py WHERE is_active = TRUE
update_access_token(rows, db, token) ==
    LET ids == IF db = "dummy" THEN IdsOf(rows, db)
               ELSE IF rows = <<>> THEN {} ELSE {Len(rows)}
    IN  [i \in 1..Len(rows) |->
            IF i \in ids THEN [rows[i] EXCEPT !.access_token = token] ELSE rows[i]]

SaveCredentials(key, secret) ==
    /\ credentials' = save_credentials(credentials, database, key, secret)
    /\ app' = Call("save_credentials", <<key, secret>>, <<>>, None, FALSE)
    /\ UNCHANGED <<kiteTickerVars, database, session>>

UpdateAccessToken(token) ==
    /\ credentials' = update_access_token(credentials, database, token)
    /\ app' = Call("update_access_token", <<token>>, <<>>, None, FALSE)
    /\ UNCHANGED <<kiteTickerVars, database, session>>

GetCredentials ==
    /\ app' = Call("get_credentials", <<>>, <<>>,
                   get_credentials(credentials, database), FALSE)
    /\ UNCHANGED <<kiteTickerVars, database, credentials, session>>

(***************************************************************************)
(* Kite_Api of src/core/kite_connect.py: the mapping tables of             *)
(* map_variables, the order operations, the retrieval operations and       *)
(* validate_order_params.  The broker client (KiteConnect) is opaque: a    *)
(* call returns a response or raises.                                      *)
(***************************************************************************)
t_type_dict == {"BUY", "SELL"}
ex_seg_dict == {"NSE", "BSE", "NFO", "BFO", "CDS", "MCX"}
validity_dict == {"DAY", "IOC", "TTL"}
p_type_dict == {"CNC", "MIS", "NRML"}
o_type_dict == {"MARKET", "LIMIT", "SL", "SLM"}
variety_dict == {"REGULAR", "AMO"}

\* the keys of a mapping table
TableKeys(table) ==
    CASE table = "t_type_dict" -> t_type_dict
      [] table = "ex_seg_dict" -> ex_seg_dict
      [] table = "validity_dict" -> validity_dict
      [] table = "p_type_dict" -> p_type_dict
      [] table = "o_type_dict" -> o_type_dict
      [] table = "variety_dict" -> variety_dict

PlaceOps == {"place_market_order", "place_limit_order", "place_stoploss_limit_order",
             "place_stoploss_market_order"}
OrderOps == PlaceOps \cup {"modify_order", "cancel_order", "convert_position"}
RetrievalOps == {"get_orders", "get_holdings", "get_positions", "get_profile"}

\* the symbolic arguments of an order operation; None where the operation
\* has no such argument or the caller passes none
OrderArgs(exchange, t_type, p_type, new_p_type, order_type, validity, variety) ==
    [exchange |-> exchange, t_type |-> t_type, p_type |-> p_type,
     new_p_type |-> new_p_type, order_type |-> order_type, validity |-> validity,
     variety |-> variety]

Lookup(table, key) == [table |-> table, key |-> key]

\* the table lookups of an operation, in the order the call evaluates them
Lookups(op, a) ==
    CASE op \in PlaceOps ->
             <<Lookup("ex_seg_dict", a.exchange), Lookup("t_type_dict", a.t_type),
               Lookup("p_type_dict", a.p_type), Lookup("validity_dict", a.validity),
               Lookup("variety_dict", a.variety)>>
      [] op = "modify_order" ->
             (IF a.order_type # None THEN <<Lookup("o_type_dict", a.order_type)>>
              ELSE <<>>)
             \o (IF a.validity # None THEN <<Lookup("validity_dict", a.validity)>>
                 ELSE <<>>)
      [] op = "cancel_order" -> <<Lookup("variety_dict", a.variety)>>
      [] op = "convert_position" ->
             <<Lookup("ex_seg_dict", a.exchange), Lookup("t_type_dict", a.t_type),
               Lookup("p_type_dict", a.p_type), Lookup("p_type_dict", a.new_p_type)>>

\* the lookups that raise KeyError
Unknown(lookups) == SelectSeq(lookups, LAMBDA l : l.key \notin TableKeys(l.table))

\* the method of the broker client an operation calls
BrokerMethod(op) ==
    CASE op \in PlaceOps -> "place_order"
      [] op = "get_orders" -> "orders"
      [] op = "get_holdings" -> "holdings"
      [] op = "get_positions" -> "positions"
      [] op = "get_profile" -> "profile"
      [] op = "get_margins" -> "margins"
      [] OTHER -> op

\* what a broker call does: it returns response, or raises with message
Returns(response) == [raises |-> FALSE, response |-> response, message |-> None]
Raises(message) == [raises |-> TRUE, response |-> None, message |-> message]
BrokerCall(method, outcome) == [method |-> method, outcome |-> outcome]

\* {"status": "error", "message": str(e)}
Error(message) == [status |-> "error", message |-> message]

\* [] and {}
EmptyList == [list |-> <<>>]
EmptyMap == [dict |-> <<>>]

\* the value a retrieval operation returns when the broker call raised
Default(op) ==
    CASE op \in {"get_orders", "get_holdings"} -> EmptyList
      [] op = "get_positions" -> [net |-> EmptyList, day |-> EmptyList]
      [] op = "get_profile" -> EmptyMap

\* a variant in which an unknown key is looked up outside the try block
LookupFailed_Propagates(op, a, key) == Call(op, a, <<>>, "none", TRUE)

\* KeyError(key) raised inside the try block: str(e) is the quoted key
LookupFailed(op, a, key) == Call(op, a, <<>>, Error(<<"KeyError", key>>), FALSE)

\* an order operation, as its caller sees it
OrderCall(op, a, outcome) ==
    LET unknown == Unknown(Lookups(op, a))
        made == <<BrokerCall(BrokerMethod(op), outcome)>>
    IN  IF unknown # <<>> THEN LookupFailed(op, a, unknown[1].key)
        ELSE IF outcome.raises THEN Call(op, a, made, Error(outcome.message), FALSE)
        ELSE Call(op, a, made, outcome.response, FALSE)

\* a retrieval operation, as its caller sees it
RetrievalCall(op, outcome) ==
    LET made == <<BrokerCall(BrokerMethod(op), outcome)>>
    IN  IF outcome.raises THEN Call(op, <<>>, made, Default(op), FALSE)
        ELSE Call(op, <<>>, made, outcome.response, FALSE)

\* get_margins(segment): {} for a segment and [] for none when the call raised
MarginsCall(segment, outcome) ==
    LET made == <<BrokerCall("margins", outcome)>>
    IN  IF outcome.raises
        THEN Call("get_margins", <<segment>>, made,
                  IF segment # None THEN EmptyMap ELSE EmptyList, FALSE)
        ELSE Call("get_margins", <<segment>>, made, outcome.response, FALSE)

\* a variant that stops at the first unsupported parameter
ValidationErrors_FirstOnly(exchange, p_type, order_type) ==
    IF exchange \notin ex_seg_dict THEN <<"exchange">>
    ELSE IF p_type \notin p_type_dict THEN <<"product type">>
    ELSE IF order_type \notin o_type_dict THEN <<"order type">>
    ELSE <<>>

\* the errors list of validate_order_params
ValidationErrors(exchange, p_type, order_type) ==
    (IF exchange \notin ex_seg_dict THEN <<"exchange">> ELSE <<>>)
    \o (IF p_type \notin p_type_dict THEN <<"product type">> ELSE <<>>)
    \o (IF order_type \notin o_type_dict THEN <<"order type">> ELSE <<>>)

validate_order_params(exchange, p_type, order_type) ==
    LET errors == ValidationErrors(exchange, p_type, order_type)
    IN  [valid |-> Len(errors) = 0, errors |-> errors]

\* the application variables are those of the web layer: a Kite_Api
\* operation touches none but the record of the call
ApiOrder(op, a, outcome) ==
    /\ app' = OrderCall(op, a, outcome)
    /\ UNCHANGED <<kiteTickerVars, database, credentials, session>>

ApiRetrieval(op, outcome) ==
    /\ app' = RetrievalCall(op, outcome)
    /\ UNCHANGED <<kiteTickerVars, database, credentials, session>>

ApiValidate(exchange, p_type, order_type) ==
    /\ app' = Call("validate_order_params", <<exchange, p_type, order_type>>, <<>>,
                   validate_order_params(exchange, p_type, order_type), FALSE)
    /\ UNCHANGED <<kiteTickerVars, database, credentials, session>>

(***************************************************************************)
(* The web application of src/app.py.  One browser session; each request   *)
(* has its own g, so get_kite_api builds the client anew.  A response is   *)
(* its status code and its body.                                           *)
(***************************************************************************)
\* None and '' are falsy
Falsy(x) == x \in {None, ""}

Response(status, body) == [status |-> status, body |-> body]
Redirect(endpoint) == Response(302, [location |-> endpoint])
Rendered(template) == Response(200, [template |-> template])
NotAuthenticated == Response(401, [error |-> "Not authenticated"])

\* Kite_Api(api_key=..., access_token=...), and KiteConnect(api_key=...)
\* which has no access token yet
Kite_Api(api_key, access_token) == [api_key |-> api_key, access_token |-> access_token]
KiteConnect(api_key) == Kite_Api(api_key, NoToken)
NoKiteApi == Kite_Api(None, NoToken)

\* the broker calls of one client
Through(client, brokerCalls) ==
    [i \in 1..Len(brokerCalls) |->
        [client |-> client, method |-> brokerCalls[i].method,
         outcome |-> brokerCalls[i].outcome]]

\* a variant that takes the access token from the store
get_kite_api_FromStore(rows, db, sess) ==
    LET stored == get_credentials(rows, db)
    IN  IF stored = NoRow THEN NoKiteApi
        ELSE IF stored[3] = NoToken THEN NoKiteApi
        ELSE Kite_Api(stored[1], stored[3])

get_kite_api(rows, db, sess) ==
    LET stored == get_credentials(rows, db)
        access_token == sess.access_token
    IN  IF stored = NoRow \/ access_token = NoToken THEN NoKiteApi
        ELSE Kite_Api(stored[1], access_token)

DataRoutes == {"profile", "holdings", "positions", "margins"}

\* kite_api.get_profile(), get_holdings(), get_positions(), get_margins()
RouteCall(route, outcome) ==
    CASE route = "profile" -> RetrievalCall("get_profile", outcome)
      [] route = "holdings" -> RetrievalCall("get_holdings", outcome)
      [] route = "positions" -> RetrievalCall("get_positions", outcome)
      [] route = "margins" -> MarginsCall(None, outcome)

\* /profile, /holdings, /positions, /margins
DataRoute(route, outcome) ==
    LET kite_api == get_kite_api(credentials, database, session)
        made == RouteCall(route, outcome)
    IN  /\ app' = IF kite_api = NoKiteApi
                  THEN Call(route, <<>>, <<>>, NotAuthenticated, FALSE)
                  ELSE Call(route, <<>>, Through(kite_api, made.calls),
                            Response(200, made.result), FALSE)
        /\ UNCHANGED <<kiteTickerVars, database, credentials, session>>

\* /
WebIndex ==
    /\ app' = Call("index", <<>>, <<>>, Rendered("index.html"), FALSE)
    /\ UNCHANGED <<kiteTickerVars, database, credentials, session>>

\* /setup
WebSetup(method, api_key, api_secret) ==
    IF method = "POST" /\ ~Falsy(api_key) /\ ~Falsy(api_secret)
    THEN /\ credentials' = save_credentials(credentials, database, api_key, api_secret)
         /\ app' = Call("setup", <<method, api_key, api_secret>>, <<>>,
                        Redirect("index"), FALSE)
         /\ UNCHANGED <<kiteTickerVars, database, session>>
    ELSE /\ app' = Call("setup", <<method, api_key, api_secret>>, <<>>,
                        Rendered("setup.html"), FALSE)
         /\ UNCHANGED <<kiteTickerVars, database, credentials, session>>

\* /login; login_url() builds the address and may raise
WebLogin(raises) ==
    LET stored == get_credentials(credentials, database)
    IN  /\ IF stored = NoRow
           THEN /\ app' = Call("login", <<>>, <<>>, Redirect("setup"), FALSE)
                /\ UNCHANGED session
           ELSE IF raises
           THEN /\ app' = Call("login", <<>>, <<>>, Redirect("index"), FALSE)
                /\ UNCHANGED session
           ELSE /\ session' = [session EXCEPT !.api_key = stored[1],
                                              !.api_secret = stored[2]]
                /\ app' = Call("login", <<>>, <<>>, Redirect("login_url"), FALSE)
        /\ UNCHANGED <<kiteTickerVars, database, credentials>>

\* a variant without the test of the request token
CallbackProceeds_AnyRequest(sess, request_token) ==
    ~Falsy(sess.api_key) /\ ~Falsy(sess.api_secret)

\* the two early returns of callback
CallbackProceeds(sess, request_token) ==
    ~Falsy(request_token) /\ ~Falsy(sess.api_key) /\ ~Falsy(sess.api_secret)

\* /zerodha/callback/; outcome is what generate_session does
WebCallback(request_token, outcome) ==
    LET made == Through(KiteConnect(session.api_key),
                        <<BrokerCall("generate_session", outcome)>>)
    IN  IF ~CallbackProceeds(session, request_token)
        THEN /\ app' = Call("callback", <<request_token>>, <<>>, Redirect("index"),
                            FALSE)
             /\ UNCHANGED <<kiteTickerVars, database, credentials, session>>
        ELSE IF outcome.raises
        THEN /\ app' = Call("callback", <<request_token>>, made, Redirect("index"),
                            FALSE)
             /\ UNCHANGED <<kiteTickerVars, database, credentials, session>>
        ELSE /\ credentials' = update_access_token(credentials, database,
                                                   outcome.response.access_token)
             /\ session' = [session EXCEPT
                                !.access_token = outcome.response.access_token]
             /\ app' = Call("callback", <<request_token>>, made, Redirect("home"),
                            FALSE)
             /\ UNCHANGED <<kiteTickerVars, database>>

\* /home
WebHome ==
    /\ app' = Call("home", <<>>, <<>>,
                   IF session.access_token = NoToken THEN Redirect("index")
                   ELSE Rendered("home.html"), FALSE)
    /\ UNCHANGED <<kiteTickerVars, database, credentials, session>>

\* /logout: session.clear()
WebLogout ==
    /\ session' = EmptySession
    /\ app' = Call("logout", <<>>, <<>>, Redirect("index"), FALSE)
    /\ UNCHANGED <<kiteTickerVars, database, credentials>>

(***************************************************************************)
(* The query operations.                                                   *)
(***************************************************************************)
\* seq[start:] of Python: a negative start counts from the end, and both ends
\* are clamped to the sequence
SliceFrom(seq, start) ==
    LET n == Len(seq)
        from == IF start < 0
                THEN (IF n + start > 0 THEN n + start ELSE 0)
                ELSE (IF start < n THEN start ELSE n)
    IN  SubSeq(seq, from + 1, n)

\* get_tick_history(instrument_token, count)
get_tick_history_count(tok, count) ==
    LET history == get_tick_history(tok)
    IN  IF CountGiven(count) THEN SliceFrom(history, 0 - CountValue(count))
        ELSE history

\* get_order_updates(count)
get_order_updates(count) ==
    IF CountGiven(count) THEN SliceFrom(order_updates, 0 - CountValue(count))
    ELSE order_updates

\* a variant that counts the instruments with a latest tick
get_connection_status_CountsLatest ==
    [status |-> connection_status,
     connection_count |-> connection_count,
     subscribed_count |-> Cardinality(Keys(latest_ticks))]

get_connection_status ==
    [status |-> connection_status,
     connection_count |-> connection_count,
     subscribed_count |-> Cardinality(Keys(subscribed_instruments))]

get_subscribed_instruments == subscribed_instruments

\* what the returned list shares with the tracker's list it was taken from
SharesOf(present, count) ==
    IF CountGiven(count) THEN "entries"
    ELSE IF present THEN "list" ELSE "nothing"

\* a variant that reads the history by indexing, which makes the defaultdict
\* create an empty history for an unknown token
TickDataAfterGet_Indexing(td, tok) ==
    IF tok \in DOMAIN td THEN td ELSE PutAll(td, {tok}, <<>>)

\* tick_data after self.tick_data.get(tok, []): dict.get creates nothing
TickDataAfterGet(td, tok) == td

\* a query returns value to the consumer: no vendor call, no observer
Answered(op, value) ==
    /\ last' = op
    /\ calls' = <<>>
    /\ invoked' = <<>>
    /\ handed' = <<>>
    /\ returned' = value
    /\ UNCHANGED threadVars

GetLatestTick(tok) ==
    /\ Answered(Op("get_latest_tick", {tok}, NoMode, "none"),
                Value(get_latest_tick(tok), "tick", tok, NoCount))
    /\ UNCHANGED <<trackerVars, callbackVars, kws_live, kwsVars, appVars, lastReq, delivered,
                   sinceFailed>>

GetTickHistory(tok, count) ==
    /\ tick_data' = TickDataAfterGet(tick_data, tok)
    /\ Answered(Op("get_tick_history", {tok}, NoMode, "none"),
                Value(get_tick_history_count(tok, count),
                      SharesOf(tok \in DOMAIN tick_data, count), tok, count))
    /\ UNCHANGED <<subscribed_instruments, latest_ticks, order_updates,
                   connection_status, connection_count, is_running, connection_thread,
                   callbackVars, kws_live, kwsVars, appVars, lastReq, delivered, sinceFailed>>

GetConnectionStatus ==
    /\ Answered(Op("get_connection_status", {}, NoMode, "none"),
                Value(get_connection_status, "nothing", 0, NoCount))
    /\ UNCHANGED <<trackerVars, callbackVars, kws_live, kwsVars, appVars, lastReq, delivered,
                   sinceFailed>>

\* self.subscribed_instruments.copy(): a new dict of tokens and mode strings
GetSubscribedInstruments ==
    /\ Answered(Op("get_subscribed_instruments", {}, NoMode, "none"),
                Value(get_subscribed_instruments, "nothing", 0, NoCount))
    /\ UNCHANGED <<trackerVars, callbackVars, kws_live, kwsVars, appVars, lastReq, delivered,
                   sinceFailed>>

GetOrderUpdates(count) ==
    /\ Answered(Op("get_order_updates", {}, NoMode, "none"),
                Value(get_order_updates(count), SharesOf(TRUE, count), 0, count))
    /\ UNCHANGED <<trackerVars, callbackVars, kws_live, kwsVars, appVars, lastReq, delivered,
                   sinceFailed>>

\* export_data(filename, instrument_tokens): the histories written to the
\* file, or the exception of the file write raised again
Exported(instruments) ==
    IF instruments # {}
    THEN [t \in instruments \cap DOMAIN tick_data |-> tick_data[t]]
    ELSE tick_data

ExportData(instruments, raises) ==
    /\ Answered(Op("export_data", instruments, NoMode,
                   IF raises THEN "raised" ELSE "none"),
                IF raises THEN NoValue
                ELSE Value(Exported(instruments), "nothing", 0, NoCount))
    /\ UNCHANGED <<trackerVars, callbackVars, kws_live, kwsVars, appVars, lastReq, delivered,
                   sinceFailed>>

(***************************************************************************)
(* The consumer changes a value a query returned to it.                    *)
(***************************************************************************)
\* "clear": value.clear(); "entry": value[0]['data'] = Forged (on a list)
Mutations == {"clear", "entry"}
Forged == [instrument_token |-> 0, last_price |-> 0]

\* the tracker's history h after the consumer changed v, a value that
\* get_tick_history just returned from h
HistoryAfterMutation(h, v, kind) ==
    IF kind = "clear"
    THEN (IF v.shares = "list" THEN <<>> ELSE h)
    ELSE IF v.shares \in {"list", "entries"} /\ v.value # <<>>
         THEN [h EXCEPT ![Len(h) - Len(v.value) + 1].data = Forged]
         ELSE h

\* the tracker's map after the consumer changed the copy that
\* get_subscribed_instruments returned
MapAfterMutation(subs, v, kind) == subs

MutateReturned(kind) ==
    /\ last.op \in {"get_tick_history", "get_subscribed_instruments"}
    /\ last.op = "get_subscribed_instruments" => kind = "clear"
    /\ tick_data' =
           IF last.op = "get_tick_history" /\ returned.token \in DOMAIN tick_data
           THEN [tick_data EXCEPT ![returned.token] =
                    HistoryAfterMutation(tick_data[returned.token], returned, kind)]
           ELSE tick_data
    /\ subscribed_instruments' =
           IF last.op = "get_subscribed_instruments"
           THEN MapAfterMutation(subscribed_instruments, returned, kind)
           ELSE subscribed_instruments
    /\ Log(Op("mutate", last.tokens, NoMode, "none"), <<>>, <<>>)
    /\ UNCHANGED <<latest_ticks, order_updates, connection_status, connection_count,
                   is_running, connection_thread, callbackVars, kws_live, kwsVars, appVars,
                   lastReq, delivered, sinceFailed>>

AddCallback(category, observer) ==
    /\ custom_tick_callbacks' = IF category = "tick"
           THEN Append(custom_tick_callbacks, observer) ELSE custom_tick_callbacks
    /\ custom_connect_callbacks' = IF category = "connect"
           THEN Append(custom_connect_callbacks, observer) ELSE custom_connect_callbacks
    /\ custom_disconnect_callbacks' = IF category = "disconnect"
           THEN Append(custom_disconnect_callbacks, observer) ELSE custom_disconnect_callbacks
    /\ custom_error_callbacks' = IF category = "error"
           THEN Append(custom_error_callbacks, observer) ELSE custom_error_callbacks
    /\ custom_order_callbacks' = IF category = "order"
           THEN Append(custom_order_callbacks, observer) ELSE custom_order_callbacks
    /\ Log(Op("add_callback", {}, NoMode, "none"), <<>>, <<>>)
    /\ StatusStays
    /\ UNCHANGED <<trackerVars, kws_live, kwsVars, appVars, lastReq, delivered>>

(***************************************************************************)
(* Events delivered by the vendor client.                                  *)
(***************************************************************************)
OnTicks(ticks) ==
    LET r == StoreTicks(tick_data, latest_ticks, ticks)
    IN  /\ kws_live
        /\ tick_data' = r.tick_data
        /\ latest_ticks' = r.latest_ticks
        /\ delivered' = [t \in Tokens |-> delivered[t] + CountFor(ticks, t)]
        /\ Recorded(Op("on_ticks", {ticks[i].instrument_token : i \in 1..Len(ticks)},
                       NoMode, "none"),
                    <<>>, Dispatch("tick", custom_tick_callbacks),
                    HandTicks(custom_tick_callbacks, ticks,
                              [tick_data |-> tick_data, latest_ticks |-> latest_ticks], r))
        /\ UNCHANGED threadVars
        /\ StatusStays
        /\ UNCHANGED <<subscribed_instruments, order_updates, connection_count,
                       is_running, connection_thread, callbackVars, kws_live, kwsVars, appVars, lastReq>>

\* a variant that resubscribes on every connect event, the first included
ShouldResubscribe_OnEveryConnect(subs, count) == Keys(subs) # {}

\* if self.subscribed_instruments and self.connection_count > 1
ShouldResubscribe(subs, count) == Keys(subs) # {} /\ count > 1

\* the tokens of the logged operation are those of the mode groups whose vendor
\* call raised; its exception is "caught" when the resubscription caught any
OnConnect(fails) ==
    LET count == connection_count + 1
        r == IF ShouldResubscribe(subscribed_instruments, count)
             THEN ResubscribeAll(subscribed_instruments, fails)
             ELSE NothingResubscribed(subscribed_instruments)
    IN  /\ kws_live
        /\ StatusBecomes("CONNECTED")
        /\ connection_count' = count
        /\ subscribed_instruments' = r.subs
        /\ Log(Op("on_connect", r.raised, NoMode, IF r.caught THEN "caught" ELSE "none"),
               r.calls, Dispatch("connect", custom_connect_callbacks))
        /\ KwsBecomes({Merge(KwsConnected(kws_subscribed, count), r.accepted)})
        /\ UNCHANGED <<tick_data, latest_ticks, order_updates, is_running,
                       connection_thread, callbackVars, kws_live, lastReq, delivered>>

OnClose ==
    /\ kws_live
    /\ StatusBecomes("DISCONNECTED")
    /\ Log(Op("on_close", {}, NoMode, "none"), <<>>,
           Dispatch("disconnect", custom_disconnect_callbacks))
    /\ UNCHANGED <<subscribed_instruments, tick_data, latest_ticks, order_updates,
                   connection_count, is_running, connection_thread, callbackVars,
                   kws_live, kwsVars, appVars, lastReq, delivered>>

\* a variant that treats an error event as a connection failure
OnError_MarksFailed ==
    /\ kws_live
    /\ Log(Op("on_error", {}, NoMode, "none"), <<>>,
           Dispatch("error", custom_error_callbacks))
    /\ StatusBecomes("FAILED")
    /\ UNCHANGED <<subscribed_instruments, tick_data, latest_ticks, order_updates,
                   connection_count, is_running, connection_thread, callbackVars,
                   kws_live, kwsVars, appVars, lastReq, delivered>>

OnError ==
    /\ kws_live
    /\ Log(Op("on_error", {}, NoMode, "none"), <<>>,
           Dispatch("error", custom_error_callbacks))
    /\ StatusStays
    /\ UNCHANGED <<subscribed_instruments, tick_data, latest_ticks, order_updates,
                   connection_count, is_running, connection_thread, callbackVars,
                   kws_live, kwsVars, appVars, lastReq, delivered>>

\* a variant that keeps only the newest order update
AppendOrder_KeepsNewest(log, data) == <<Entry(data)>>

AppendOrder(log, data) == Append(log, Entry(data))

OnOrderUpdate(data) ==
    /\ kws_live
    /\ order_updates' = AppendOrder(order_updates, data)
    /\ Log(Op("on_order_update", {}, NoMode, "none"), <<>>,
           Dispatch("order", custom_order_callbacks))
    /\ StatusStays
    /\ UNCHANGED <<subscribed_instruments, tick_data, latest_ticks, connection_count,
                   is_running, connection_thread, callbackVars, kws_live, kwsVars, appVars, lastReq,
                   delivered>>

OnReconnect ==
    /\ kws_live
    /\ Log(Op("on_reconnect", {}, NoMode, "none"), <<>>, <<>>)
    /\ StatusStays
    /\ UNCHANGED <<subscribed_instruments, tick_data, latest_ticks, order_updates,
                   connection_count, is_running, connection_thread, callbackVars,
                   kws_live, kwsVars, appVars, lastReq, delivered>>

OnNoReconnect ==
    /\ kws_live
    /\ StatusBecomes("FAILED")
    /\ Log(Op("on_noreconnect", {}, NoMode, "none"), <<>>, <<>>)
    /\ UNCHANGED <<subscribed_instruments, tick_data, latest_ticks, order_updates,
                   connection_count, is_running, connection_thread, callbackVars,
                   kws_live, kwsVars, appVars, lastReq, delivered>>


(***************************************************************************)
(* Inputs.                                                                 *)
(***************************************************************************)
Tick(tok, price) == [instrument_token |-> tok, last_price |-> price]
TickPayloads == {Tick(t, p) : t \in Tokens, p \in Prices}
Batches == UNION {[1..n -> TickPayloads] : n \in 0..MaxBatch}
OrderPayloads == {[order_id |-> 1]}
OrderEvents == {[order_id |-> i] : i \in 1..2}

CallbacksOf(category) ==
    CASE category = "tick" -> custom_tick_callbacks
      [] category = "connect" -> custom_connect_callbacks
      [] category = "disconnect" -> custom_disconnect_callbacks
      [] category = "error" -> custom_error_callbacks
      [] category = "order" -> custom_order_callbacks

(***************************************************************************)
(* Spec: the subscription map under every subscribe, unsubscribe and       *)
(* set_mode call and every connect and close event, each handler one       *)
(* atomic step.                                                            *)
(***************************************************************************)
DoSubscribe ==
    \E instruments \in SUBSET Tokens, mode \in AnyModes, fail \in Failures :
        Subscribe(instruments, mode, fail)

DoUnsubscribe ==
    \E instruments \in SUBSET Tokens, fail \in {"none", "unsubscribe"} :
        Unsubscribe(instruments, fail)

DoSetMode ==
    \E mode \in AnyModes, instruments \in SUBSET Tokens, fail \in {"none", "set_mode"} :
        SetMode(mode, instruments, fail)

DoConnectInline ==
    \E raises \in BOOLEAN : ConnectInline(raises)

DoOnConnect ==
    /\ connection_count < MaxConnects
    /\ \E fails \in [Values(subscribed_instruments) -> Failures] : OnConnect(fails)

Next ==
    \/ DoSubscribe
    \/ DoUnsubscribe
    \/ DoSetMode
    \/ DoConnectInline
    \/ DoOnConnect
    \/ OnClose

Spec == Init /\ [][Next]_vars


(***************************************************************************)
(* SpecTicks: the tick stores (history and latest tick) under tick         *)
(* batches, subscribe, unsubscribe and clear_data.                         *)
(***************************************************************************)
TickStart == ConnectInline(FALSE)

TickSubscribe ==
    \E instruments \in SUBSET Tokens, fail \in {"none", "subscribe"} :
        Subscribe(instruments, NoMode, fail)

TickOnTicks ==
    \E ticks \in Batches :
        /\ \A t \in Tokens : delivered[t] + CountFor(ticks, t) <= MaxTicks
        /\ OnTicks(ticks)

NextTicks ==
    \/ TickStart
    \/ TickSubscribe
    \/ DoUnsubscribe
    \/ TickOnTicks
    \/ ClearData

SpecTicks == Init /\ [][NextTicks]_vars

(***************************************************************************)
(* SpecCap: one instrument is driven past HISTORY_CAP while the other      *)
(* holds a short history.  The n-th tick delivered for an instrument       *)
(* carries last_price n, so every history entry names its arrival.         *)
(***************************************************************************)
HotToken == CHOOSE t \in Tokens : \A u \in Tokens : t <= u

CapLimit(t) == IF t = HotToken THEN HISTORY_CAP + MaxOver ELSE MaxOther

CapOnTick ==
    \E t \in Tokens :
        /\ delivered[t] < CapLimit(t)
        /\ OnTicks(<<Tick(t, delivered[t] + 1)>>)

NextCap ==
    \/ TickStart
    \/ CapOnTick

SpecCap == Init /\ [][NextCap]_vars

(***************************************************************************)
(* SpecSession: the connection status under every operation and event of   *)
(* the tracker, on one instrument.                                         *)
(***************************************************************************)
SessSubscribe ==
    \E mode \in {NoMode, MODE_FULL}, fail \in Failures : Subscribe({1}, mode, fail)

SessUnsubscribe ==
    \E fail \in {"none", "unsubscribe"} : Unsubscribe({1}, fail)

SessSetMode ==
    \E fail \in {"none", "set_mode"} : SetMode(MODE_LTP, {1}, fail)

DoConnectWorker ==
    \E raises \in BOOLEAN : ConnectWorker(raises)

DoDisconnect ==
    \E raises \in BOOLEAN : Disconnect(raises)

SessAddCallback ==
    \E observer \in Observers :
        /\ Len(custom_error_callbacks) < MaxCallbacks
        /\ AddCallback("error", observer)

SessOnTicks ==
    /\ delivered[1] < MaxTicks
    /\ OnTicks(<<Tick(1, 1)>>)

SessOnOrderUpdate ==
    \E data \in OrderPayloads :
        /\ Len(order_updates) < MaxOrders
        /\ OnOrderUpdate(data)

NextSession ==
    \/ SessSubscribe
    \/ SessUnsubscribe
    \/ SessSetMode
    \/ ConnectThreaded
    \/ DoConnectInline
    \/ DoConnectWorker
    \/ DoDisconnect
    \/ ClearData
    \/ SessAddCallback
    \/ SessOnTicks
    \/ DoOnConnect
    \/ OnClose
    \/ OnError
    \/ SessOnOrderUpdate
    \/ OnReconnect
    \/ OnNoReconnect

SpecSession == Init /\ [][NextSession]_vars

(***************************************************************************)
(* SpecVendor: the subscription map next to the vendor client's own        *)
(* subscriptions, under subscribe, unsubscribe and set_mode calls whose    *)
(* vendor calls return or raise, and under connect events.                 *)
(***************************************************************************)
VendStart ==
    /\ ~kws_live
    /\ ConnectInline(FALSE)

VendSubscribe ==
    \E instruments \in SUBSET Tokens, fail \in Failures,
       mode \in {NoMode, MODE_FULL, MODE_BOGUS, MODE_EMPTY} :
        Subscribe(instruments, mode, fail)

VendSetMode ==
    \E instruments \in SUBSET Tokens, fail \in {"none", "set_mode"} :
        SetMode(MODE_LTP, instruments, fail)

NextVendor ==
    \/ VendStart
    \/ VendSubscribe
    \/ DoUnsubscribe
    \/ VendSetMode
    \/ DoOnConnect

SpecVendor == InitFollowed /\ [][NextVendor]_vars

(***************************************************************************)
(* SpecCalls: the map and the latest ticks under subscribe, unsubscribe    *)
(* and set_mode calls whose vendor calls return or raise, with ticks       *)
(* arriving between the calls.                                             *)
(***************************************************************************)
CallSubscribe ==
    \E instruments \in SUBSET Tokens, mode \in {NoMode, MODE_FULL}, fail \in Failures :
        Subscribe(instruments, mode, fail)

CallOnTick ==
    \E t \in Tokens :
        /\ delivered[t] < MaxEvents
        /\ OnTicks(<<Tick(t, 1)>>)

NextCalls ==
    \/ VendStart
    \/ CallSubscribe
    \/ DoUnsubscribe
    \/ VendSetMode
    \/ CallOnTick

SpecCalls == Init /\ [][NextCalls]_vars

(***************************************************************************)
(* SpecBatch: tick batches of every length up to MaxBatch, the empty batch *)
(* and batches with several ticks of one instrument included, delivered to *)
(* a tracker with tick observers.                                          *)
(***************************************************************************)
BatchAddCallback ==
    \E observer \in Observers :
        /\ Len(custom_tick_callbacks) < MaxObservers
        /\ AddCallback("tick", observer)

NextBatch ==
    \/ VendStart
    \/ BatchAddCallback
    \/ TickOnTicks

SpecBatch == Init /\ [][NextBatch]_vars

(***************************************************************************)
(* SpecFanout: the observer lists of the five categories under every       *)
(* registration and every event that fans out to observers.  No instrument *)
(* is subscribed.                                                          *)
(***************************************************************************)
ObserverCount ==
    Len(custom_tick_callbacks) + Len(custom_connect_callbacks)
        + Len(custom_disconnect_callbacks) + Len(custom_error_callbacks)
        + Len(custom_order_callbacks)

FanStart ==
    /\ ~kws_live
    /\ ConnectInline(FALSE)

FanAddCallback ==
    \E category \in Categories, observer \in Observers :
        /\ ObserverCount < MaxObservers
        /\ AddCallback(category, observer)

FanOnTicks ==
    \E ticks \in {<<>>, <<Tick(1, 1)>>} :
        /\ delivered[1] + Len(ticks) <= MaxEvents
        /\ OnTicks(ticks)

FanOnConnect ==
    /\ connection_count < MaxEvents
    /\ OnConnect(EmptyDict)

FanOnOrderUpdate ==
    \E data \in OrderPayloads :
        /\ Len(order_updates) < MaxEvents
        /\ OnOrderUpdate(data)

NextFanout ==
    \/ FanStart
    \/ FanAddCallback
    \/ FanOnTicks
    \/ FanOnConnect
    \/ OnClose
    \/ OnError
    \/ FanOnOrderUpdate

SpecFanout == Init /\ [][NextFanout]_vars

(***************************************************************************)
(* SpecRegistry: the observer lists under registrations, every event and   *)
(* the consumer's other calls; an observer may be added more than once.    *)
(* No instrument is subscribed and the tick batches are empty.             *)
(***************************************************************************)
RegOnTicks == OnTicks(<<>>)

NextRegistry ==
    \/ FanStart
    \/ FanAddCallback
    \/ RegOnTicks
    \/ FanOnConnect
    \/ OnClose
    \/ OnError
    \/ FanOnOrderUpdate
    \/ DoDisconnect
    \/ ClearData

SpecRegistry == Init /\ [][NextRegistry]_vars

(***************************************************************************)
(* SpecDisconnect: disconnect() among the events of a started client, with *)
(* tick and disconnect observers registered.                               *)
(***************************************************************************)
DiscAddCallback ==
    \E category \in {"tick", "disconnect"}, observer \in Observers :
        /\ Len(CallbacksOf(category)) < MaxCallbacks
        /\ AddCallback(category, observer)

NextDisconnect ==
    \/ VendStart
    \/ DoDisconnect
    \/ DiscAddCallback
    \/ SessOnTicks
    \/ FanOnConnect
    \/ OnClose
    \/ OnError
    \/ FanOnOrderUpdate
    \/ OnReconnect
    \/ OnNoReconnect

SpecDisconnect == Init /\ [][NextDisconnect]_vars

(***************************************************************************)
(* The same code statement by statement, for two threads: the consumer's   *)
(* thread inside subscribe, unsubscribe or set_mode, and the vendor's      *)
(* event thread inside _on_connect and its resubscription.  The code takes *)
(* no lock, so a step of one thread may follow any step of the other.      *)
(* last is set when a call or handler ends; calls is kept by the atomic    *)
(* actions only.  A local that is dead is cleared.                         *)
(***************************************************************************)
sessionVars == <<connection_status, connection_count, is_running, connection_thread,
                 sinceFailed, kws_live>>

\* subscribe / unsubscribe / set_mode: argument handling and mode validation
C_Call(op, instruments, mode) ==
    /\ caller.pc = "idle"
    /\ IF op = "subscribe" /\ EffectiveMode(mode) \notin ValidModes
       THEN /\ caller' = CallerIdle
            /\ last' = Op(op, instruments, mode, "ValueError")
       ELSE /\ caller' = [CallerIdle EXCEPT !.pc = "vendor", !.op = op,
                                            !.tokens = instruments, !.mode = mode]
            /\ last' = last
    /\ UNCHANGED <<subscribed_instruments, tick_data, latest_ticks, order_updates,
                   sessionVars, kwsVars, appVars, callbackVars, calls, invoked, handed, returned, lastReq, delivered, worker>>

\* the vendor calls of the call: they return, or one raises and the call re-raises
C_Vendor(raises) ==
    /\ caller.pc = "vendor"
    /\ IF raises
       THEN /\ caller' = CallerIdle
            /\ last' = Op(caller.op, caller.tokens, caller.mode, "VendorError")
       ELSE /\ caller' = [caller EXCEPT !.pc = "track", !.todo = caller.tokens]
            /\ last' = last
    /\ KwsBecomes(
           CASE caller.op = "subscribe" ->
                    KwsAfterVendorCalls(kws_subscribed, caller.tokens, caller.mode, raises)
             [] caller.op = "unsubscribe" ->
                    {IF raises THEN kws_subscribed
                     ELSE KwsUnsubscribed(kws_subscribed, caller.tokens)}
             [] caller.op = "set_mode" ->
                    {IF raises THEN kws_subscribed
                     ELSE KwsModeSet(kws_subscribed, caller.tokens, caller.mode)})
    /\ UNCHANGED <<subscribed_instruments, tick_data, latest_ticks, order_updates,
                   sessionVars, callbackVars, calls, invoked, handed, returned, lastReq, delivered, worker>>

\* one pass of the tracking loop of the call
C_Track ==
    /\ caller.pc = "track"
    /\ \E t \in caller.todo :
        /\ caller' = [caller EXCEPT !.todo = caller.todo \ {t}]
        /\ subscribed_instruments' =
               CASE caller.op = "subscribe" ->
                        TrackSubscribed(subscribed_instruments, {t}, EffectiveMode(caller.mode))
                 [] caller.op = "unsubscribe" -> PopAll(subscribed_instruments, {t})
                 [] caller.op = "set_mode" ->
                        SetModeTracked(subscribed_instruments, {t}, caller.mode)
        /\ latest_ticks' = IF caller.op = "unsubscribe"
                           THEN ForgetLatest(latest_ticks, {t}) ELSE latest_ticks
    /\ UNCHANGED <<tick_data, order_updates, sessionVars, kwsVars, appVars, callbackVars, calls, invoked, handed, returned,
                   last, lastReq, delivered, worker>>

\* the call returns
C_Return ==
    /\ caller.pc = "track"
    /\ caller.todo = {}
    /\ caller' = CallerIdle
    /\ last' = Op(caller.op, caller.tokens, caller.mode, "none")
    /\ lastReq' = [t \in Tokens |->
           IF t \notin caller.tokens THEN lastReq[t]
           ELSE CASE caller.op = "subscribe" -> RequestedMode(caller.mode)
                  [] caller.op = "unsubscribe" -> "unsubscribed"
                  [] caller.op = "set_mode" ->
                         IF lastReq[t] \in ValidModes THEN "set_mode" ELSE lastReq[t]]
    /\ UNCHANGED <<subscribed_instruments, tick_data, latest_ticks, order_updates,
                   sessionVars, kwsVars, appVars, callbackVars, calls, invoked, handed, returned, delivered, worker>>

\* _on_connect: status, counter, and the test that guards the resubscription
W_OnConnect ==
    /\ worker.pc = "idle"
    /\ kws_live
    /\ StatusBecomes("CONNECTED")
    /\ connection_count' = connection_count + 1
    /\ worker' = [WorkerIdle EXCEPT !.pc =
           IF ShouldResubscribe(subscribed_instruments, connection_count + 1)
           THEN "resubscribe" ELSE "callbacks"]
    /\ KwsBecomes({KwsConnected(kws_subscribed, connection_count + 1)})
    /\ UNCHANGED <<subscribed_instruments, tick_data, latest_ticks, order_updates,
                   is_running, connection_thread, kws_live, callbackVars, calls,
                   invoked, handed, returned, last, lastReq, delivered, caller>>

\* _resubscribe_all: the emptiness test, then the iterator over the map is made
W_ResubscribeAll ==
    /\ worker.pc = "resubscribe"
    /\ worker' = IF Keys(subscribed_instruments) = {}
                 THEN [worker EXCEPT !.pc = "callbacks"]
                 ELSE [worker EXCEPT !.pc = "group",
                                     !.size = Cardinality(Keys(subscribed_instruments))]
    /\ UNCHANGED <<subscribed_instruments, tick_data, latest_ticks, order_updates,
                   sessionVars, kwsVars, appVars, callbackVars, calls, invoked, handed, returned, last, lastReq, delivered,
                   caller>>

AddToGroup(groups, mode, t) ==
    [m \in DOMAIN groups \cup {mode} |->
        IF m = mode THEN (IF m \in DOMAIN groups THEN groups[m] ELSE {}) \cup {t}
        ELSE groups[m]]

GroupOrder(groups) == SelectSeq(ModeOrder, LAMBDA m : m \in DOMAIN groups)

\* one step of the grouping loop: a dict iterator raises RuntimeError when the
\* dict has changed size since the iterator was made, and nothing catches it
W_Group ==
    /\ worker.pc = "group"
    /\ IF Cardinality(Keys(subscribed_instruments)) # worker.size
       THEN /\ worker' = WorkerIdle
            /\ last' = Op("on_connect", {}, NoMode, "RuntimeError")
       ELSE /\ last' = last
            /\ IF Keys(subscribed_instruments) \ worker.seen = {}
               THEN worker' = [worker EXCEPT !.pc = "next", !.size = 0, !.seen = {},
                                             !.pending = GroupOrder(worker.groups)]
               ELSE \E t \in Keys(subscribed_instruments) \ worker.seen :
                        worker' = [worker EXCEPT
                            !.seen = worker.seen \cup {t},
                            !.groups = AddToGroup(worker.groups, subscribed_instruments[t], t)]
    /\ UNCHANGED <<subscribed_instruments, tick_data, latest_ticks, order_updates,
                   sessionVars, kwsVars, appVars, callbackVars, calls, invoked, handed, returned, lastReq, delivered, caller>>

\* the loop over the mode groups: subscribe(tokens, mode, resubscribe=True) is
\* entered for the next group; a ValueError is caught and logged
W_NextGroup ==
    /\ worker.pc = "next"
    /\ worker' =
           IF worker.pending = <<>>
           THEN [worker EXCEPT !.pc = "callbacks"]
           ELSE LET mode == Head(worker.pending)
                IN  IF EffectiveMode(mode) \notin ValidModes
                    THEN [worker EXCEPT !.pending = Tail(worker.pending),
                                        !.exc = "caught"]
                    ELSE [worker EXCEPT !.pc = "vendor", !.mode = mode,
                                        !.tokens = worker.groups[mode],
                                        !.pending = Tail(worker.pending)]
    /\ UNCHANGED <<subscribed_instruments, tick_data, latest_ticks, order_updates,
                   sessionVars, kwsVars, appVars, callbackVars, calls, invoked, handed, returned, last, lastReq, delivered,
                   caller>>

\* the vendor calls of the resubscription: a raise is caught and logged
W_Vendor(raises) ==
    /\ worker.pc = "vendor"
    /\ worker' = IF raises
                 THEN [worker EXCEPT !.pc = "next", !.tokens = {}, !.mode = NoMode,
                                     !.exc = "caught"]
                 ELSE [worker EXCEPT !.pc = "track", !.todo = worker.tokens]
    /\ KwsBecomes(KwsAfterVendorCalls(kws_subscribed, worker.tokens, worker.mode, raises))
    /\ UNCHANGED <<subscribed_instruments, tick_data, latest_ticks, order_updates,
                   sessionVars, callbackVars, calls, invoked, handed, returned, last, lastReq, delivered,
                   caller>>

\* one pass of the tracking loop of the resubscription
W_Track ==
    /\ worker.pc = "track"
    /\ IF worker.todo = {}
       THEN /\ worker' = [worker EXCEPT !.pc = "next", !.tokens = {}, !.mode = NoMode]
            /\ UNCHANGED subscribed_instruments
       ELSE \E t \in worker.todo :
               /\ worker' = [worker EXCEPT !.todo = worker.todo \ {t}]
               /\ subscribed_instruments' =
                      TrackSubscribed(subscribed_instruments, {t}, EffectiveMode(worker.mode))
    /\ UNCHANGED <<tick_data, latest_ticks, order_updates, sessionVars, kwsVars, appVars, callbackVars,
                   calls, invoked, handed, returned, last, lastReq, delivered, caller>>

\* the connect observers are called and the handler returns
W_Callbacks ==
    /\ worker.pc = "callbacks"
    /\ worker' = WorkerIdle
    /\ last' = Op("on_connect", {}, NoMode, worker.exc)
    /\ invoked' = Dispatch("connect", custom_connect_callbacks)
    /\ handed' = <<>>
    /\ UNCHANGED <<subscribed_instruments, tick_data, latest_ticks, order_updates,
                   sessionVars, kwsVars, appVars, callbackVars, calls, returned, lastReq, delivered,
                   caller>>

(***************************************************************************)
(* SpecOrders: order updates of two orders, arriving among the other       *)
(* events and clear_data, with order observers registered.                 *)
(***************************************************************************)
OrdOnOrderUpdate ==
    \E data \in OrderEvents :
        /\ Len(order_updates) < MaxLog
        /\ OnOrderUpdate(data)

OrdAddCallback ==
    \E observer \in Observers :
        /\ Len(custom_order_callbacks) < MaxCallbacks
        /\ AddCallback("order", observer)

OrdOnTicks ==
    /\ delivered[1] < MaxTicks
    /\ OnTicks(<<Tick(1, 1)>>)

NextOrders ==
    \/ VendStart
    \/ OrdOnOrderUpdate
    \/ OrdAddCallback
    \/ OrdOnTicks
    \/ OnClose
    \/ OnError
    \/ OnReconnect
    \/ ClearData

SpecOrders == Init /\ [][NextOrders]_vars

(***************************************************************************)
(* SpecStatus: the connection counter and the status snapshot under the    *)
(* session's operations and events.                                        *)
(***************************************************************************)
StatSubscribe ==
    \E instruments \in SUBSET Tokens : Subscribe(instruments, NoMode, "none")

StatUnsubscribe ==
    \E instruments \in SUBSET Tokens : Unsubscribe(instruments, "none")

NextStatus ==
    \/ VendStart
    \/ StatSubscribe
    \/ StatUnsubscribe
    \/ OrdOnTicks
    \/ DoOnConnect
    \/ OnClose
    \/ OnError
    \/ OnReconnect
    \/ OnNoReconnect
    \/ DoDisconnect
    \/ ClearData
    \/ GetConnectionStatus

SpecStatus == Init /\ [][NextStatus]_vars

(***************************************************************************)
(* SpecQuery: the queries, asked of a tracker that holds ticks of          *)
(* instrument 1 and order updates and none of instrument 2, and a consumer *)
(* that changes what it got back.                                          *)
(***************************************************************************)
Counts == {NoCount} \cup {Count(n) : n \in 0..MaxLimit}

QuerySubscribe == Subscribe({1}, NoMode, "none")

QueryOnTicks ==
    \E price \in Prices :
        /\ delivered[1] < MaxTicks
        /\ OnTicks(<<Tick(1, price)>>)

QueryOnOrderUpdate ==
    \E data \in OrderPayloads :
        /\ Len(order_updates) < MaxOrders
        /\ OnOrderUpdate(data)

QueryLatestTick == \E tok \in Tokens : GetLatestTick(tok)

QueryTickHistory == \E tok \in Tokens, count \in Counts : GetTickHistory(tok, count)

QueryOrderUpdates == \E count \in Counts : GetOrderUpdates(count)

QueryExport ==
    \E instruments \in SUBSET Tokens, raises \in BOOLEAN : ExportData(instruments, raises)

QueryMutate == \E kind \in Mutations : MutateReturned(kind)

NextQuery ==
    \/ VendStart
    \/ QuerySubscribe
    \/ QueryOnTicks
    \/ QueryOnOrderUpdate
    \/ QueryLatestTick
    \/ QueryTickHistory
    \/ GetConnectionStatus
    \/ GetSubscribedInstruments
    \/ QueryOrderUpdates
    \/ QueryExport
    \/ QueryMutate

SpecQuery == Init /\ [][NextQuery]_vars

(***************************************************************************)
(* SpecClear: clear_data among subscriptions at a vendor client that       *)
(* follows them, ticks, order updates, connect events and observers.       *)
(***************************************************************************)
ClearSubscribe ==
    \E instruments \in {{1}, {1, 2}}, fail \in Failures :
        Subscribe(instruments, NoMode, fail)

ClearAddCallback ==
    \E category \in {"tick", "order"} :
        /\ ObserverCount < MaxCallbacks
        /\ AddCallback(category, "ok")

NextClear ==
    \/ VendStart
    \/ ClearSubscribe
    \/ ClearAddCallback
    \/ SessOnTicks
    \/ OrdOnOrderUpdate
    \/ DoOnConnect
    \/ OnClose
    \/ ClearData

SpecClear == InitFollowed /\ [][NextClear]_vars

(***************************************************************************)
(* SpecApi: the Kite_Api operations for supported and unsupported symbolic *)
(* keys, the broker call returning or raising.                             *)
(***************************************************************************)
UnknownKey == "INVALID"
BrokerOutcomes ==
    {Returns([order_id |-> "123456", status |-> "success"]),
     Returns(Error("rejected")), Raises("API Error")}

\* every symbolic argument is a supported key or the unsupported one; the
\* optional ones of modify_order may be left out
OrderArgSets(op) ==
    CASE op \in PlaceOps ->
             {OrderArgs(e, t, p, None, None, v, w) :
                  e \in {"NSE", UnknownKey}, t \in {"BUY", UnknownKey},
                  p \in {"CNC", UnknownKey}, v \in {"DAY", UnknownKey},
                  w \in {"REGULAR", UnknownKey}}
      [] op = "modify_order" ->
             {OrderArgs(None, None, None, None, o, v, None) :
                  o \in {None, "LIMIT", UnknownKey}, v \in {None, "IOC", UnknownKey}}
      [] op = "cancel_order" ->
             {OrderArgs(None, None, None, None, None, None, w) :
                  w \in {"AMO", UnknownKey}}
      [] op = "convert_position" ->
             {OrderArgs(e, t, p, q, None, None, None) :
                  e \in {"NFO", UnknownKey}, t \in {"SELL", UnknownKey},
                  p \in {"MIS", UnknownKey}, q \in {"NRML", UnknownKey}}

ApiOrders ==
    \E op \in OrderOps, outcome \in BrokerOutcomes :
        \E a \in OrderArgSets(op) : ApiOrder(op, a, outcome)

ApiRetrievals ==
    \E op \in RetrievalOps, outcome \in BrokerOutcomes : ApiRetrieval(op, outcome)

ApiValidations ==
    \E exchange \in {"NSE", "MCX", UnknownKey}, p_type \in {"CNC", "NRML", UnknownKey},
       order_type \in {"MARKET", "SLM", UnknownKey} :
        ApiValidate(exchange, p_type, order_type)

NextApi ==
    \/ ApiOrders
    \/ ApiRetrievals
    \/ ApiValidations

SpecApi == Init /\ [][NextApi]_vars

(***************************************************************************)
(* SpecWeb: every sequence of requests of one browser, with either store   *)
(* module behind the application.  The broker issues an access token for   *)
(* the API key of the client that asked for the session.                   *)
(***************************************************************************)
WebKeys == {"k1", "k2"}
DataOutcomes == {Returns([user_id |-> "AB1234"]), Raises("API Error")}
SessionOutcomes(api_key) ==
    {Returns([access_token |-> Token(api_key, n)]) : n \in 1..MaxLogins}
        \cup {Raises("Invalid request token")}

WebSetups ==
    \E method \in {"GET", "POST"}, api_key \in WebKeys \cup {None},
       api_secret \in {"s1", ""} :
        /\ Len(credentials) < MaxRows
        /\ WebSetup(method, api_key, api_secret)

WebLogins == \E raises \in BOOLEAN : WebLogin(raises)

WebCallbacks ==
    \E request_token \in {"rt", None} :
        \E outcome \in SessionOutcomes(session.api_key) :
            WebCallback(request_token, outcome)

WebData == \E route \in DataRoutes, outcome \in DataOutcomes : DataRoute(route, outcome)

NextWeb ==
    \/ WebIndex
    \/ WebSetups
    \/ WebLogins
    \/ WebCallbacks
    \/ WebHome
    \/ WebLogout
    \/ WebData

SpecWeb == InitStore /\ [][NextWeb]_vars

(***************************************************************************)
(* SpecStore: the credentials store under every sequence of its three      *)
(* functions, for either module.                                           *)
(***************************************************************************)
ApiKeys == {"k1", "k2"}
ApiSecrets == {"s1", "s2"}
AccessTokens == {Token(key, n) : key \in ApiKeys, n \in 1..MaxLogins}

StoreSave ==
    \E key \in ApiKeys, secret \in ApiSecrets :
        /\ Len(credentials) < MaxRows
        /\ SaveCredentials(key, secret)

StoreUpdate == \E token \in AccessTokens : UpdateAccessToken(token)

NextStore ==
    \/ StoreSave
    \/ StoreUpdate
    \/ GetCredentials

SpecStore == InitStore /\ [][NextStore]_vars

(***************************************************************************)
(* _on_ticks on the vendor's event thread and clear_data on the consumer's *)
(* thread, statement by statement.                                         *)
(***************************************************************************)
\* _on_ticks is entered with a batch
W_OnTicks(ticks) ==
    /\ worker.pc = "idle"
    /\ kws_live
    /\ worker' = [WorkerIdle EXCEPT !.pc = IF ticks = <<>> THEN "tick_callbacks"
                                           ELSE "append",
                                    !.pending = ticks, !.batch = ticks]
    /\ UNCHANGED <<subscribed_instruments, tick_data, latest_ticks, order_updates,
                   sessionVars, kwsVars, appVars, callbackVars, calls, invoked, handed, returned, last,
                   lastReq, delivered, caller>>

\* the next tick of the batch is appended to its history, which is trimmed
W_Append ==
    /\ worker.pc = "append"
    /\ tick_data' = AppendTick(tick_data, Head(worker.pending))
    /\ worker' = [worker EXCEPT !.pc = "latest"]
    /\ UNCHANGED <<subscribed_instruments, latest_ticks, order_updates, sessionVars,
                   kwsVars, appVars, callbackVars, calls, invoked, handed, returned, last, lastReq,
                   delivered, caller>>

\* the same tick becomes the latest tick of its instrument
W_Latest ==
    /\ worker.pc = "latest"
    /\ latest_ticks' = SetLatest(latest_ticks, Head(worker.pending))
    /\ delivered' = [t \in Tokens |->
                        delivered[t] + CountFor(<<Head(worker.pending)>>, t)]
    /\ worker' = [worker EXCEPT !.pending = Tail(worker.pending),
                                !.pc = IF Tail(worker.pending) = <<>>
                                       THEN "tick_callbacks" ELSE "append"]
    /\ UNCHANGED <<subscribed_instruments, tick_data, order_updates, sessionVars,
                   kwsVars, appVars, callbackVars, calls, invoked, handed, returned, last, lastReq, caller>>

\* the tick observers are called and the handler returns
W_TickCallbacks ==
    LET stores == [tick_data |-> tick_data, latest_ticks |-> latest_ticks]
    IN  /\ worker.pc = "tick_callbacks"
        /\ worker' = WorkerIdle
        /\ last' = Op("on_ticks",
                      {worker.batch[i].instrument_token : i \in 1..Len(worker.batch)},
                      NoMode, "none")
        /\ invoked' = Dispatch("tick", custom_tick_callbacks)
        /\ handed' = HandTicks(custom_tick_callbacks, worker.batch, stores, stores)
        /\ UNCHANGED <<subscribed_instruments, tick_data, latest_ticks, order_updates,
                       sessionVars, kwsVars, appVars, callbackVars, calls, returned, lastReq,
                       delivered, caller>>

\* clear_data is entered
C_ClearData ==
    /\ caller.pc = "idle"
    /\ caller' = [CallerIdle EXCEPT !.pc = "clear_tick_data", !.op = "clear_data"]
    /\ UNCHANGED <<subscribed_instruments, tick_data, latest_ticks, order_updates,
                   sessionVars, kwsVars, appVars, callbackVars, calls, invoked, handed, returned, last,
                   lastReq, delivered, worker>>

\* self.tick_data.clear()
C_ClearTickData ==
    /\ caller.pc = "clear_tick_data"
    /\ tick_data' = EmptyDict
    /\ delivered' = [t \in Tokens |-> 0]
    /\ caller' = [caller EXCEPT !.pc = "clear_latest_ticks"]
    /\ UNCHANGED <<subscribed_instruments, latest_ticks, order_updates, sessionVars,
                   kwsVars, appVars, callbackVars, calls, invoked, handed, returned, last, lastReq, worker>>

\* self.latest_ticks.clear()
C_ClearLatestTicks ==
    /\ caller.pc = "clear_latest_ticks"
    /\ latest_ticks' = EmptyDict
    /\ caller' = [caller EXCEPT !.pc = "clear_order_updates"]
    /\ UNCHANGED <<subscribed_instruments, tick_data, order_updates, sessionVars,
                   kwsVars, appVars, callbackVars, calls, invoked, handed, returned, last, lastReq,
                   delivered, worker>>

\* self.order_updates.clear(), and the call returns
C_ClearOrderUpdates ==
    /\ caller.pc = "clear_order_updates"
    /\ order_updates' = <<>>
    /\ caller' = CallerIdle
    /\ last' = Op("clear_data", {}, NoMode, "none")
    /\ UNCHANGED <<subscribed_instruments, tick_data, latest_ticks, sessionVars,
                   kwsVars, appVars, callbackVars, calls, invoked, handed, returned, lastReq, delivered,
                   worker>>

(***************************************************************************)
(* SpecRace: ticks arriving on the event thread while the consumer's       *)
(* thread clears the stores.                                               *)
(***************************************************************************)
RaceStart ==
    /\ ~kws_live
    /\ ConnectInline(FALSE)

RaceOnTicks ==
    \E ticks \in Batches :
        /\ \A t \in Tokens : delivered[t] + CountFor(ticks, t) <= MaxTicks
        /\ W_OnTicks(ticks)

NextRace ==
    \/ RaceStart
    \/ RaceOnTicks
    \/ W_Append
    \/ W_Latest
    \/ W_TickCallbacks
    \/ C_ClearData
    \/ C_ClearTickData
    \/ C_ClearLatestTicks
    \/ C_ClearOrderUpdates

SpecRace == Init /\ [][NextRace]_vars

(***************************************************************************)
(* SpecConc: the two threads interleaved.                                  *)
(***************************************************************************)
ConcStart ==
    /\ ~kws_live
    /\ ConnectInline(FALSE)

ConcCall ==
    \/ C_Call("subscribe", {1, 2}, NoMode)
    \/ C_Call("subscribe", {2}, MODE_FULL)
    \/ \E t \in Tokens : C_Call("unsubscribe", {t}, NoMode)
    \/ C_Call("set_mode", {1}, MODE_FULL)

ConcVendor ==
    \E raises \in BOOLEAN : C_Vendor(raises)

ConcOnConnect ==
    /\ connection_count < MaxConnects
    /\ W_OnConnect

ConcWorkerVendor ==
    \E raises \in BOOLEAN : W_Vendor(raises)

NextConc ==
    \/ ConcStart
    \/ ConcCall
    \/ ConcVendor
    \/ C_Track
    \/ C_Return
    \/ ConcOnConnect
    \/ W_ResubscribeAll
    \/ W_Group
    \/ W_NextGroup
    \/ ConcWorkerVendor
    \/ W_Track
    \/ W_Callbacks

SpecConc == Init /\ [][NextConc]_vars

(***************************************************************************)
(* Claims checked under Spec.                                              *)
(***************************************************************************)
SubscribeCalls(cs) == {i \in 1..Len(cs) : cs[i].call = "subscribe"}
SubscribedByCalls(cs) == UNION {cs[i].tokens : i \in SubscribeCalls(cs)}

\* C1: after any sequence of accepted subscribe and unsubscribe calls, the map
\* holds exactly the tokens whose last request was a subscribe, each with the
\* mode of that subscribe (QUOTE by default), and no token whose last request
\* was an unsubscribe.  (A token whose mode a later set_mode call rewrote is
\* only required to be present.)
C1_NetSubscriptions ==
    \A t \in Tokens :
        /\ lastReq[t] \in ValidModes =>
               /\ t \in Keys(subscribed_instruments)
               /\ subscribed_instruments[t] = lastReq[t]
        /\ lastReq[t] = "set_mode" => t \in Keys(subscribed_instruments)
        /\ lastReq[t] \in {"never", "unsubscribed"} =>
               t \notin Keys(subscribed_instruments)

C1_Witness ==
    /\ last.op = "unsubscribe"
    /\ last.exc = "none"
    /\ \E t, u \in Tokens :
           /\ lastReq[t] = "unsubscribed"
           /\ lastReq[u] = MODE_QUOTE
           /\ connection_count > 1

\* C2: on a reconnect (a connect event that brings connection_count above 1)
\* the tokens passed to the vendor's subscribe are exactly the keys of the map
\* at the moment of the event, with one vendor subscribe per distinct mode.
C2_ResubscribeCoversMap ==
    [][(last'.op = "on_connect" /\ connection_count' > 1) =>
           /\ SubscribedByCalls(calls') = Keys(subscribed_instruments)
           /\ Cardinality(SubscribeCalls(calls')) =
                  Cardinality(Values(subscribed_instruments))]_vars

\* C3: a connect event leaves the subscription map exactly as it was.
C3_ConnectKeepsMap ==
    [][last'.op = "on_connect" => subscribed_instruments' = subscribed_instruments]_vars

\* C12: on a reconnect during which the vendor call of at least one mode group
\* raised, each mode group of the map (the other groups as well as the failing
\* ones) was passed to the vendor's subscribe exactly once.
C12_EveryGroupAttempted ==
    [][(last'.op = "on_connect" /\ connection_count' > 1 /\ last'.tokens # {}) =>
           \A m \in Values(subscribed_instruments) :
               Cardinality({i \in SubscribeCalls(calls') :
                               calls'[i].tokens = TokensOf(subscribed_instruments, m)}) = 1]_vars

\* C14: the first connect event (connection_count going from 0 to 1) makes no
\* vendor call at all, whatever the map holds; a connect event makes vendor
\* calls only when it is not the first.
C14_FirstConnectIssuesNothing ==
    [][last'.op = "on_connect" =>
           /\ connection_count = 0 => calls' = <<>>
           /\ calls' # <<>> => connection_count' > 1]_vars

C14_Witness ==
    /\ last.op = "on_connect"
    /\ connection_count = 1
    /\ Keys(subscribed_instruments) = Tokens
    /\ calls = <<>>

\* C16: every mode stored in the map is LTP, QUOTE or FULL.
C16_StoredModesValid ==
    Values(subscribed_instruments) \subseteq ValidModes

C18_ModeRequestOnlyForSubscribed ==
    [][last'.op = "set_mode" =>
           /\ \A i \in 1..Len(calls') :
                  calls'[i].tokens \subseteq Keys(subscribed_instruments)
           /\ last'.tokens \cap Keys(subscribed_instruments) = {} => calls' = <<>>]_vars


(***************************************************************************)
(* Claims checked under SpecCap and SpecTicks.                             *)
(***************************************************************************)
Min(a, b) == IF a < b THEN a ELSE b

\* C5: a history never holds more than 1000 entries; it is the last
\* min(n, 1000) of the n ticks delivered for its instrument, oldest first,
\* whatever was delivered for the other instruments.
C5_HistoryIsLastThousand ==
    \A t \in Tokens :
        LET h == get_tick_history(t)
            n == delivered[t]
        IN  /\ Len(h) <= 1000
            /\ Len(h) = Min(n, 1000)
            /\ \A i \in 1..Len(h) : h[i].data = Tick(t, n - Len(h) + i)

C5_Witness ==
    /\ delivered[HotToken] > 1000
    /\ \E t \in Tokens \ {HotToken} : delivered[t] > 0
    /\ last.op = "on_ticks"

\* C6: a successful unsubscribe(tokens) leaves no latest tick for any of the
\* tokens and leaves the history of each exactly as it was.
C6_UnsubscribeKeepsHistory ==
    [][(last'.op = "unsubscribe" /\ last'.exc = "none") =>
           \A t \in last'.tokens :
               /\ t \notin DOMAIN latest_ticks'
               /\ (IF t \in DOMAIN tick_data' THEN tick_data'[t] ELSE <<>>)
                      = get_tick_history(t)]_vars

C6_Witness ==
    /\ last.op = "unsubscribe"
    /\ last.exc = "none"
    /\ \E t \in last.tokens :
           /\ Len(get_tick_history(t)) = MaxTicks
           /\ ~HasLatestTick(t)
           /\ lastReq[t] = "unsubscribed"

\* C7: no latest tick is reported for a token that never received a tick, nor
\* for a token whose last subscription request was a successful unsubscribe.
C7_NoLatestTickOnceUnsubscribed ==
    \A t \in Tokens :
        (delivered[t] = 0 \/ lastReq[t] = "unsubscribed") => ~HasLatestTick(t)


(***************************************************************************)
(* Claims checked under SpecSession.                                       *)
(***************************************************************************)
ConnectFailed(op) ==
    \/ op.op = "on_noreconnect"
    \/ op.op \in {"connect", "connect_worker"} /\ op.exc = "caught"

\* C8: the status is one of three values, starts DISCONNECTED, and changes
\* only on a connect event (CONNECTED), a close event (DISCONNECTED), a
\* noreconnect event or a failed vendor connect (FAILED); every other
\* operation leaves it alone.
C8_StatusTransitions ==
    /\ connection_status = "DISCONNECTED"
    /\ [](connection_status \in {"DISCONNECTED", "CONNECTED", "FAILED"})
    /\ [][/\ last'.op = "on_connect" => connection_status' = "CONNECTED"
          /\ last'.op = "on_close" => connection_status' = "DISCONNECTED"
          /\ ConnectFailed(last') => connection_status' = "FAILED"
          /\ (last'.op \notin {"on_connect", "on_close"} /\ ~ConnectFailed(last')) =>
                 connection_status' = connection_status]_vars

C8_Witness ==
    /\ connection_status = "FAILED"
    /\ last.op = "on_error"
    /\ connection_count > 0
    /\ Len(order_updates) > 0
    /\ Keys(subscribed_instruments) # {}

\* C9: once the status is FAILED it stays FAILED under every event until the
\* consumer calls connect() again.
C9_FailedIsTerminal ==
    [][(connection_status = "FAILED" /\ ~sinceFailed /\ last'.op # "connect") =>
           connection_status' = "FAILED"]_vars

\* C10: when a connection failure sets the status to FAILED, every registered
\* error observer is notified, and nothing is raised to the caller of connect().
C10_FailureNotifiesErrorObservers ==
    ConnectFailed(last) =>
        /\ connection_status = "FAILED"
        /\ invoked = Dispatch("error", custom_error_callbacks)
        /\ last.exc \in {"none", "caught"}


(***************************************************************************)
(* Claims checked under SpecBatch.                                         *)
(***************************************************************************)
\* C22: on every tick batch each registered tick observer is called exactly
\* once, in order, with the whole batch (the batch whose storing is the state
\* change of the event: every tick of it appended to its history and written
\* to the latest ticks), and at the time of the call the stores already hold
\* the whole batch.
C22_BatchStoredThenHandedOnce ==
    [][last'.op = "on_ticks" =>
           /\ Len(handed') = Len(custom_tick_callbacks)
           /\ Len(invoked') = Len(custom_tick_callbacks)
           /\ \A i \in 1..Len(handed') :
                  LET r == StoreTicks(tick_data, latest_ticks, handed'[i].ticks)
                  IN  /\ handed'[i].observer = custom_tick_callbacks[i]
                      /\ {handed'[i].ticks[j].instrument_token :
                              j \in 1..Len(handed'[i].ticks)} = last'.tokens
                      /\ tick_data' = r.tick_data
                      /\ latest_ticks' = r.latest_ticks
                      /\ handed'[i].tick_data = tick_data'
                      /\ handed'[i].latest_ticks = latest_ticks']_vars

C22_Witness ==
    /\ last.op = "on_ticks"
    /\ Len(handed) = 2
    /\ handed[2].ticks = <<Tick(1, 1), Tick(1, 2)>>
    /\ Len(handed[2].tick_data[1]) = 2
    /\ handed[2].latest_ticks[1] = Tick(1, 2)

(***************************************************************************)
(* Claims checked under SpecCalls.                                         *)
(***************************************************************************)
\* C19: a vendor failure during subscribe, unsubscribe or set_mode reaches
\* the caller (it is never swallowed), and the call that ends with it leaves
\* the map and the latest ticks exactly as they were before the call.
C19_VendorFailureLeavesNoTrace ==
    [][last'.op \in {"subscribe", "unsubscribe", "set_mode"} =>
           /\ last'.exc \in {"none", "ValueError", "VendorError"}
           /\ last'.exc = "VendorError" =>
                  /\ subscribed_instruments' = subscribed_instruments
                  /\ latest_ticks' = latest_ticks]_vars

C19_Witness ==
    /\ last = Op("subscribe", Tokens, MODE_FULL, "VendorError")
    /\ Len(calls) = 2
    /\ Keys(subscribed_instruments) = {1}
    /\ subscribed_instruments[1] = MODE_QUOTE
    /\ DOMAIN latest_ticks = Tokens

(***************************************************************************)
(* Claims checked under SpecVendor.                                        *)
(***************************************************************************)
\* C15: a subscribe call that passes a mode other than LTP, QUOTE and FULL
\* fails with the invalid-mode error (ValueError) before any vendor call, and
\* changes nothing: not the map, not any other variable of the tracker, not
\* the vendor client's subscriptions.
C15_InvalidModeRejected ==
    [][(last'.op = "subscribe" /\ last'.mode \notin ValidModes \cup {NoMode}) =>
           /\ last'.exc = "ValueError"
           /\ calls' = <<>>
           /\ UNCHANGED <<trackerVars, callbackVars, kws_subscribed>>]_vars

\* C20: whenever no call of the tracker is in progress, the tokens the vendor
\* client was asked to stream on the current connection are exactly the keys
\* of the map.
C20_VendorMatchesMap ==
    Keys(kws_subscribed) = Keys(subscribed_instruments)

\* C21: after a successful subscribe(tokens, mode), the mode recorded for each
\* of the tokens is the mode the vendor client was last asked to stream for
\* it.
C21_RecordedModeIsVendorMode ==
    [][(last'.op = "subscribe" /\ last'.exc = "none") =>
           \A t \in last'.tokens :
               /\ t \in Keys(kws_subscribed')
               /\ t \in Keys(subscribed_instruments')
               /\ subscribed_instruments'[t] = kws_subscribed'[t]]_vars

(***************************************************************************)
(* Claims checked under SpecFanout.                                        *)
(***************************************************************************)
EventCategory(op) ==
    CASE op = "on_ticks" -> "tick"
      [] op = "on_connect" -> "connect"
      [] op = "on_close" -> "disconnect"
      [] op = "on_error" -> "error"
      [] op = "on_order_update" -> "order"
      [] OTHER -> "none"

\* C11: on every event, every observer registered for the event's category is
\* invoked, in order, whether or not an observer before it (in this or in
\* another category, on this or on an earlier event) raised; nothing leaves
\* the event handler; and the state update of the event stands.
C11_ObserverFailuresIsolated ==
    [][EventCategory(last'.op) # "none" =>
           LET category == EventCategory(last'.op)
               observers == CallbacksOf(category)
           IN  /\ Len(invoked') = Len(observers)
               /\ \A i \in 1..Len(observers) : invoked'[i] = <<category, observers[i]>>
               /\ last'.exc = "none"
               /\ last'.op = "on_ticks" =>
                      \A t \in last'.tokens :
                          /\ t \in DOMAIN latest_ticks'
                          /\ t \in DOMAIN tick_data'
                          /\ Len(tick_data'[t]) > Len(get_tick_history(t))
               /\ last'.op = "on_connect" =>
                      /\ connection_status' = "CONNECTED"
                      /\ connection_count' = connection_count + 1
               /\ last'.op = "on_close" => connection_status' = "DISCONNECTED"
               /\ last'.op = "on_order_update" =>
                      Len(order_updates') = Len(order_updates) + 1]_vars

C11_Witness ==
    /\ last.op = "on_connect"
    /\ invoked = <<(<<"connect", "raises">>), (<<"connect", "ok">>)>>
    /\ connection_status = "CONNECTED"
    /\ custom_tick_callbacks = <<"raises">>
    /\ delivered[1] > 0

(***************************************************************************)
(* Claims checked under SpecClear.                                         *)
(***************************************************************************)
\* C38: clear_data empties the tick histories, the latest-tick snapshot and
\* the order log and leaves the subscriptions, the status, the connect
\* counter, the five observer lists and the vendor client's subscriptions
\* as they were; a tick delivered next is the only entry of its token's
\* history.
C38_ClearDataKeepsSubscriptions ==
    [][/\ last'.op = "clear_data" =>
             /\ tick_data' = EmptyDict
             /\ latest_ticks' = EmptyDict
             /\ order_updates' = <<>>
             /\ UNCHANGED <<subscribed_instruments, connection_status,
                            connection_count, callbackVars, kws_subscribed>>
       /\ (last.op = "clear_data" /\ last'.op = "on_ticks") =>
             /\ Keys(tick_data') = last'.tokens
             /\ \A t \in last'.tokens :
                    /\ Len(tick_data'[t]) = 1
                    /\ tick_data'[t][1].data = latest_ticks'[t]]_vars

C38_Witness ==
    /\ last.op = "clear_data"
    /\ tick_data = EmptyDict
    /\ latest_ticks = EmptyDict
    /\ order_updates = <<>>
    /\ connection_status = "CONNECTED"
    /\ connection_count = 2
    /\ Keys(subscribed_instruments) = {1, 2}
    /\ Keys(kws_subscribed) = {1, 2}
    /\ custom_order_callbacks # <<>>

(***************************************************************************)
(* Claims checked under SpecApi.                                           *)
(***************************************************************************)
\* the symbolic arguments of the last order operation that were passed
PassedKeys(a) ==
    {<<"ex_seg_dict", a.exchange>>, <<"t_type_dict", a.t_type>>,
     <<"p_type_dict", a.p_type>>, <<"p_type_dict", a.new_p_type>>,
     <<"o_type_dict", a.order_type>>, <<"validity_dict", a.validity>>,
     <<"variety_dict", a.variety>>} \ {<<table, None>> : table \in
        {"ex_seg_dict", "t_type_dict", "p_type_dict", "o_type_dict",
         "validity_dict", "variety_dict"}}

\* C31: no order or retrieval operation ends in an exception.  An order
\* operation with an unknown symbolic key, or whose broker call raised,
\* returns status "error" with the message; a retrieval operation whose
\* broker call raised returns its empty default; otherwise exactly one broker
\* call was made and its response is returned unchanged.
C31_FailuresBecomeValues ==
    /\ app.op \in OrderOps =>
           /\ ~app.raised
           /\ IF \E k \in PassedKeys(app.args) : k[2] \notin TableKeys(k[1])
              THEN /\ app.result.status = "error"
                   /\ app.result.message[1] = "KeyError"
              ELSE /\ Len(app.calls) = 1
                   /\ app.calls[1].method = BrokerMethod(app.op)
                   /\ app.result = IF app.calls[1].outcome.raises
                                   THEN Error(app.calls[1].outcome.message)
                                   ELSE app.calls[1].outcome.response
    /\ app.op \in RetrievalOps =>
           /\ ~app.raised
           /\ Len(app.calls) = 1
           /\ app.calls[1].method = BrokerMethod(app.op)
           /\ app.result =
                  IF ~app.calls[1].outcome.raises THEN app.calls[1].outcome.response
                  ELSE IF app.op \in {"get_orders", "get_holdings"} THEN EmptyList
                  ELSE IF app.op = "get_positions"
                       THEN [net |-> EmptyList, day |-> EmptyList]
                  ELSE EmptyMap

C31_Witness ==
    /\ app.op = "convert_position"
    /\ app.args.new_p_type = UnknownKey
    /\ app.args.exchange = "NFO"
    /\ app.result = Error(<<"KeyError", UnknownKey>>)
    /\ app.calls = <<>>

\* C32: validate_order_params reports valid exactly when the exchange, the
\* product type and the order type are all keys of their tables, reports as
\* many errors as there are unsupported parameters among the three, makes no
\* broker call and changes nothing.
C32_ValidationCountsUnsupported ==
    [][app'.op = "validate_order_params" =>
           LET unsupported ==
                   {i \in 1..3 : app'.args[i] \notin
                        TableKeys(<<"ex_seg_dict", "p_type_dict", "o_type_dict">>[i])}
           IN  /\ app'.result.valid = (unsupported = {})
               /\ Len(app'.result.errors) = Cardinality(unsupported)
               /\ app'.calls = <<>>
               /\ ~app'.raised
               /\ UNCHANGED <<kiteTickerVars, database, credentials, session>>]_vars

C32_Witness ==
    /\ app.op = "validate_order_params"
    /\ app.args = <<"MCX", UnknownKey, UnknownKey>>
    /\ ~app.result.valid
    /\ Len(app.result.errors) = 2

(***************************************************************************)
(* Claims checked under SpecWeb.                                           *)
(***************************************************************************)
\* C35: a data route calls the broker only when credentials are stored and
\* the session holds an access token; otherwise it answers 401 'Not
\* authenticated' without a broker call.  /logout empties the session, and
\* from then on the session holds no access token, so that every data route
\* answers 401, until a callback stores one.
C35_DataRoutesNeedSessionToken ==
    /\ [](app.op \in DataRoutes =>
             IF get_credentials(credentials, database) # NoRow
                /\ session.access_token # NoToken
             THEN /\ Len(app.calls) = 1
                  /\ app.result.status = 200
             ELSE /\ app.calls = <<>>
                  /\ app.result = NotAuthenticated)
    /\ [][/\ app'.op = "logout" => session' = EmptySession
          /\ (session.access_token = NoToken /\ session'.access_token # NoToken)
                 => app'.op = "callback" /\ app'.result = Redirect("home")]_vars

C35_Witness ==
    /\ app.op = "holdings"
    /\ app.result = NotAuthenticated
    /\ app.calls = <<>>
    /\ session = EmptySession
    /\ credentials # <<>>
    /\ credentials[Len(credentials)].access_token = Token("k2", 1)

\* C36: a callback stores an access token, in the store and in the session,
\* only when the request carries a request token, the session holds the API
\* key and secret put there by /login, and generate_session succeeds; in
\* every other case neither the stored rows nor the session change and the
\* answer is a redirect to index.
C36_CallbackStoresOnlyOnSuccess ==
    [][app'.op = "callback" =>
          IF /\ ~Falsy(app'.args[1])
             /\ ~Falsy(session.api_key)
             /\ ~Falsy(session.api_secret)
             /\ app'.calls # <<>>
             /\ ~app'.calls[1].outcome.raises
          THEN LET token == app'.calls[1].outcome.response.access_token
               IN  /\ session' = [session EXCEPT !.access_token = token]
                   /\ get_credentials(credentials', database)[3] = token
                   /\ app'.result = Redirect("home")
          ELSE /\ UNCHANGED <<credentials, session>>
               /\ app'.result = Redirect("index")
               /\ Falsy(app'.args[1]) \/ Falsy(session.api_key)
                      \/ Falsy(session.api_secret) => app'.calls = <<>>]_vars

C36_Witness ==
    /\ app.op = "callback"
    /\ app.result = Redirect("home")
    /\ session.access_token = Token("k1", 2)
    /\ get_credentials(credentials, database) = <<"k1", "s1", Token("k1", 2)>>

\* C37: the API key with which the client of a data request is built is the
\* API key for which the session's access token was issued.
C37_ClientKeyMatchesToken ==
    app.op \in DataRoutes /\ app.calls # <<>> =>
        app.calls[1].client.api_key = app.calls[1].client.access_token.key

(***************************************************************************)
(* Claims checked under SpecStore.                                         *)
(***************************************************************************)
\* the key, secret and token of every row before the last one are as before
OlderRowsKept ==
    \A i \in 1..Len(credentials) :
        i < Len(credentials') =>
            /\ credentials'[i].api_key = credentials[i].api_key
            /\ credentials'[i].api_secret = credentials[i].api_secret
            /\ credentials'[i].access_token = credentials[i].access_token

\* C33: get_credentials returns nothing while nothing was saved; after
\* save_credentials(k, s) it returns k, s and no token; after
\* update_access_token(t) it returns the same key and secret with token t;
\* update_access_token changes the token of no older row; get_credentials
\* changes nothing and returns the latest row.
C33_StoreReturnsLatest ==
    /\ get_credentials(credentials, database) = NoRow
    /\ [][LET before == get_credentials(credentials, database)
              after == get_credentials(credentials', database')
          IN  /\ app'.op = "save_credentials" =>
                     /\ after = <<app'.args[1], app'.args[2], NoToken>>
                     /\ Len(credentials') = Len(credentials) + 1
                     /\ OlderRowsKept
              /\ app'.op = "update_access_token" =>
                     /\ after = IF before = NoRow THEN NoRow
                                ELSE <<before[1], before[2], app'.args[1]>>
                     /\ Len(credentials') = Len(credentials)
                     /\ OlderRowsKept
              /\ app'.op = "get_credentials" =>
                     /\ app'.result = before
                     /\ credentials' = credentials]_vars

C33_Witness ==
    /\ app.op = "get_credentials"
    /\ app.result = <<"k2", "s1", Token("k2", 2)>>
    /\ Len(credentials) = 2
    /\ credentials[1].api_key = "k1"
    /\ credentials[1].access_token = Token("k1", 1)
    /\ database = "dummy"

(***************************************************************************)
(* Claims checked under SpecRegistry.                                      *)
(***************************************************************************)
IsPrefix(s, t) == Len(s) <= Len(t) /\ SubSeq(t, 1, Len(s)) = s

\* C27: on an event of a category the observers of that category, and no
\* others, are invoked in the order they were added, an observer added k
\* times k times; an operation that is not an event invokes none; and every
\* operation leaves each observer list as it was or longer at its end.
C27_ObserversInOrderNeverRemoved ==
    [][/\ \A category \in Categories :
              IsPrefix(CallbacksOf(category), CallbacksOf(category)')
       /\ IF EventCategory(last'.op) # "none"
          THEN LET category == EventCategory(last'.op)
                   observers == CallbacksOf(category)
               IN  invoked' = [i \in 1..Len(observers) |-> <<category, observers[i]>>]
          ELSE invoked' = <<>>]_vars

C27_Witness ==
    /\ last.op = "on_error"
    /\ invoked = <<(<<"error", "ok">>), (<<"error", "ok">>)>>
    /\ custom_tick_callbacks = <<"raises">>
    /\ ~is_running

(***************************************************************************)
(* Claims checked under SpecDisconnect.                                    *)
(***************************************************************************)
\* C28: disconnect() leaves is_running false, asks the vendor client to
\* close, ends without raising whether or not the close failed, and changes
\* nothing else; the status turns DISCONNECTED in a close event only; and an
\* event delivered while is_running is false is processed in full: its state
\* update is made and the observers of its category are invoked.
C28_DisconnectOnlyRequestsClose ==
    [][/\ last'.op = "disconnect" =>
              /\ ~is_running'
              /\ calls' = <<VendorCall("close", {}, NoMode)>>
              /\ last'.exc \in {"none", "caught"}
              /\ UNCHANGED <<subscribed_instruments, tick_data, latest_ticks,
                             order_updates, connection_status, connection_count,
                             callbackVars>>
       /\ (connection_status' = "DISCONNECTED" /\ connection_status # "DISCONNECTED")
              => last'.op = "on_close"
       /\ (~is_running /\ EventCategory(last'.op) # "none") =>
              LET category == EventCategory(last'.op)
                  observers == CallbacksOf(category)
              IN  /\ invoked' = [i \in 1..Len(observers) |-> <<category, observers[i]>>]
                  /\ last'.op = "on_ticks" =>
                         \A t \in last'.tokens :
                             /\ Len(tick_data'[t]) = Len(get_tick_history(t)) + 1
                             /\ t \in DOMAIN latest_ticks'
                  /\ last'.op = "on_connect" =>
                         /\ connection_status' = "CONNECTED"
                         /\ connection_count' = connection_count + 1
                  /\ last'.op = "on_close" => connection_status' = "DISCONNECTED"
                  /\ last'.op = "on_order_update" =>
                         Len(order_updates') = Len(order_updates) + 1]_vars

C28_Witness ==
    /\ last.op = "on_ticks"
    /\ ~is_running
    /\ kws_live
    /\ connection_status = "CONNECTED"
    /\ invoked = <<(<<"tick", "raises">>)>>
    /\ Len(tick_data[1]) = 2

(***************************************************************************)
(* Claims about the stored data, the status snapshot and the queries,      *)
(* checked under SpecQuery, SpecStatus, SpecOrders and SpecRace.           *)
(***************************************************************************)
QueryOps == {"get_latest_tick", "get_tick_history", "get_connection_status",
             "get_subscribed_instruments", "get_order_updates", "export_data"}

\* C29: a query changes none of subscribed_instruments, tick_data (no empty
\* history appears for an unknown token), latest_ticks, order_updates,
\* connection_status and connection_count, and makes no subscribe,
\* unsubscribe or set_mode call to the vendor client.
C29_QueriesReadOnly ==
    [][last'.op \in QueryOps =>
           /\ UNCHANGED <<subscribed_instruments, tick_data, latest_ticks,
                          order_updates, connection_status, connection_count>>
           /\ \A i \in 1..Len(calls') :
                  calls'[i].call \notin {"subscribe", "unsubscribe", "set_mode"}]_vars

C29_Witness ==
    /\ last.op = "get_tick_history"
    /\ returned.token = 2
    /\ returned.value = <<>>
    /\ DOMAIN tick_data = {1}
    /\ order_updates # <<>>
    /\ Keys(subscribed_instruments) = {1}

\* C30: when the consumer changes a value that get_tick_history (with or
\* without a limit) or get_subscribed_instruments returned to it, the
\* tracker's tick_data and subscribed_instruments stay as they were.
C30_ReturnedValuesNotShared ==
    [][last'.op = "mutate" =>
           UNCHANGED <<tick_data, subscribed_instruments>>]_vars

\* C26: get_tick_history(token, limit) with an integer limit >= 0 returns the
\* last min(limit, n) entries of the token's n-entry history, oldest first
\* (none for limit 0, all n for a limit above n); without a limit it returns
\* all n entries; for a token with no history it returns the empty sequence.
C26_HistoryLimit ==
    last.op = "get_tick_history" =>
        LET h == get_tick_history(returned.token)
            n == Len(h)
        IN  returned.value =
                IF returned.count = NoCount THEN h
                ELSE SubSeq(h, n - Min(CountValue(returned.count), n) + 1, n)

\* C25: connection_count is 0 after construction, every connect event adds
\* exactly one to it and no other operation or event changes it; the snapshot
\* of get_connection_status carries the current status, that count and the
\* number of keys of subscribed_instruments.
C25_ConnectionCountAndSnapshot ==
    /\ connection_count = 0
    /\ [][/\ connection_count' = IF last'.op = "on_connect"
                                  THEN connection_count + 1 ELSE connection_count
          /\ last'.op = "get_connection_status" =>
                 /\ returned'.value.status = connection_status
                 /\ returned'.value.connection_count = connection_count
                 /\ returned'.value.subscribed_count =
                        Cardinality(Keys(subscribed_instruments))]_vars

C25_Witness ==
    /\ last.op = "get_connection_status"
    /\ returned.value.connection_count = 2
    /\ returned.value.subscribed_count = 1
    /\ returned.value.status = "DISCONNECTED"
    /\ Keys(latest_ticks) = {}

\* C24: the order-update log only grows at its end: an order-update event
\* appends exactly one entry, carrying the event's payload, after the entries
\* already there and drops none whatever the length; clear_data empties the
\* log; no other operation changes it.
C24_OrderLogAppendOnly ==
    [][IF last'.op = "on_order_update"
       THEN \E data \in OrderEvents :
                order_updates' = Append(order_updates, Entry(data))
       ELSE IF last'.op = "clear_data"
            THEN order_updates' = <<>>
            ELSE order_updates' = order_updates]_vars

C24_Witness ==
    /\ last.op = "on_order_update"
    /\ Len(order_updates) = MaxLog
    /\ order_updates[1].data.order_id = 2
    /\ order_updates[MaxLog].data.order_id = 1
    /\ Len(invoked) = 1

\* C23: whenever no call and no handler is in progress, every token that has
\* a latest tick has a non-empty history whose last entry carries that very
\* tick.
C23_LatestIsHistoryTail ==
    (caller.pc = "idle" /\ worker.pc = "idle") =>
        \A t \in Tokens :
            HasLatestTick(t) =>
                LET h == get_tick_history(t)
                IN  /\ h # <<>>
                    /\ h[Len(h)].data = get_latest_tick(t)

(***************************************************************************)
(* Claims checked under SpecConc.                                          *)
(***************************************************************************)
\* C34: once an unsubscribe of t and a resubscription running concurrently
\* with it have both finished, and the consumer has not subscribed t again,
\* t is not a key of subscribed_instruments.
C34_UnsubscribeSurvivesReconnect ==
    \A t \in Tokens :
        (caller.pc = "idle" /\ worker.pc = "idle" /\ lastReq[t] = "unsubscribed")
            => t \notin Keys(subscribed_instruments)

\* C4: a subscribe, unsubscribe or set_mode call never runs interleaved with an
\* event handler: while one thread is inside its call or handler, the other
\* is not inside its own.
C4_HandlersMutuallyExclusive ==
    ~(caller.pc # "idle" /\ worker.pc # "idle")

\* C13: the connect-event handler never raises to the vendor client that
\* delivers the event: whenever it has ended, nothing but caught exceptions
\* occurred in it, the status is CONNECTED and every connect observer was
\* invoked, also when the consumer's thread edited the subscriptions during
\* the resubscription.
C13_ConnectHandlerNeverRaises ==
    last.op = "on_connect" =>
        /\ last.exc \in {"none", "caught"}
        /\ connection_status = "CONNECTED"
        /\ invoked = Dispatch("connect", custom_connect_callbacks)

====
